---- MODULE Spec2Model ----
(***************************************************************************)
(* Model of the task execution pipeline of geo-monitor                     *)
(* (backend/app/services/executor.py): ModelExecutor.execute with its      *)
(* CostTracker, CircuitBreaker and RateLimiter, and the coordinator        *)
(* execute_task_run that fans a task's keyword x model matrix through it.  *)
(* Spec and SpecFault are the run pipeline; SpecValidate, SpecBreaker,     *)
(* SpecLimiter and SpecTracker exercise one component each, with time and  *)
(* with concurrent callers where the component is shared. SpecRuns is two  *)
(* runs in flight in one worker process; SpecCalculator applies the        *)
(* metric functions of calculator.py to drawn arguments; SpecSync and      *)
(* SpecWorker are the worker process of worker.py (job table, queue        *)
(* consumer, resync loop, shutdown) with schedule_task of scheduler.py,    *)
(* and SpecWorkerLive adds the fairness of its event loop. SpecRerun calls  *)
(* execute_task_run again for a run it has executed, SpecRunsLive adds     *)
(* fairness to SpecRuns, and SpecMetrics applies calculate_metrics to      *)
(* validated responses.                                                    *)
(*                                                                         *)
(* Money is counted in units of 1/20 of a micro-dollar, so that every      *)
(* price of the price table is a whole number of units per token; the      *)
(* binary floating point error of the Python expression is not modelled.   *)
(* JSON values are tagged records (field t is the Python type).            *)
(***************************************************************************)
EXTENDS Integers, Sequences, FiniteSets, TLC

(* ---------------------------------------------------------------------- *)
(* Program constants                                                       *)
(* ---------------------------------------------------------------------- *)
RATE_LIMIT_MAX_RETRIES == 3
failure_threshold == 5
recovery_timeout == 60
\* one dollar in money units (1 unit = 1/20 micro-dollar)
UnitsPerDollar == 20 * 1000000
max_daily_cost == 100 * UnitsPerDollar
MAX_COST_PER_REQUEST == 1 * UnitsPerDollar
\* Numeric(10, 4): the smallest amount a cost column can hold, 0.0001 USD
NumericScaleUnit == UnitsPerDollar \div 10000
PromptTemplateLen == 996
estimated_output_tokens == 500

(* ---------------------------------------------------------------------- *)
(* Bounds and input pools of the model                                     *)
(* ---------------------------------------------------------------------- *)
MaxDbFaults == 2

KeywordPool == <<"crm", "best crm">>
ModelPool == <<"openai/gpt-4o", "acme/unlisted">>
\* settings.MAX_COST_PER_REQUEST is read from the environment: the default
\* and a ceiling below every estimate (0.0001 USD)
MaxCostPerRequestChoices == {MAX_COST_PER_REQUEST, NumericScaleUnit}
\* seconds between the breaker's last failure and a can_execute() call
ElapsedChoices == {0, recovery_timeout}

Prefixes(s) == {SubSeq(s, 1, n) : n \in 0..Len(s)}

KeywordLen(k) == CASE k = "crm" -> 3 [] k = "best crm" -> 8 [] OTHER -> 0

(* ---------------------------------------------------------------------- *)
(* JSON values                                                             *)
(* ---------------------------------------------------------------------- *)
JNull == [t |-> "null"]
JBool(b) == [t |-> "bool", b |-> b]
JInt(n) == [t |-> "int", n |-> n]
JStr(s) == [t |-> "str", s |-> s]
JList(items) == [t |-> "list", items |-> items]
JDict(fields) == [t |-> "dict", fields |-> fields]
EmptyFields == [k \in {} |-> JNull]

\* Python truthiness of a JSON value
Truthy(j) ==
    CASE j.t = "null" -> FALSE
      [] j.t = "bool" -> j.b
      [] j.t = "int" -> j.n # 0
      [] j.t = "str" -> j.s # ""
      [] j.t = "list" -> Len(j.items) > 0
      [] j.t = "dict" -> DOMAIN j.fields # {}

\* dict.get(key, default)
DictGet(d, key, default) ==
    IF key \in DOMAIN d.fields THEN d.fields[key] ELSE default

\* isinstance(x, int): bool is a subclass of int
IsInstanceInt(j) == j.t \in {"int", "bool"}
IntValue(j) == IF j.t = "bool" THEN (IF j.b THEN 1 ELSE 0) ELSE j.n

ValidSentiments == {"Positive", "Neutral", "Negative"}

validate_brand(brand) ==
    /\ brand.t = "dict"
    /\ "name" \in DOMAIN brand.fields
    /\ brand.fields["name"].t = "str"
    /\ LET sentiment == DictGet(brand, "sentiment", JNull)
       IN  ~(Truthy(sentiment)
             /\ ~(sentiment.t = "str" /\ sentiment.s \in ValidSentiments))
    /\ LET accuracy_score == DictGet(brand, "accuracy_score", JNull)
       IN  ~(Truthy(accuracy_score)
             /\ (\/ ~IsInstanceInt(accuracy_score)
                 \/ ~(1 <= IntValue(accuracy_score)
                      /\ IntValue(accuracy_score) <= 10)))

validate_response(response) ==
    /\ response.t = "dict"
    /\ LET brands == DictGet(response, "brands", JList(<<>>))
       IN  /\ brands.t = "list"
           /\ \A i \in 1..Len(brands.items) : validate_brand(brands.items[i])

\* Whether calculate_metrics raises on a response that passed
\* validate_response (a TypeError in max(), in a dict lookup of an
\* unhashable sentiment, in len() or in set())
calculate_metrics_raises(response_data) ==
    LET brands_data == DictGet(response_data, "brands", JList(<<>>)).items
        n == Len(brands_data)
        total_brands == DictGet(response_data, "total_brands_mentioned", JInt(n))
        has_name(b) == Truthy(DictGet(b, "name", JNull))
        pkh(b) == DictGet(b, "positioning_keywords_hit", JNull)
        Sized(j) == j.t \in {"str", "list", "dict"}
    IN  \/ /\ \E i \in 1..n : has_name(brands_data[i])
           /\ ~IsInstanceInt(total_brands)
        \/ \E i \in 1..n :
              DictGet(brands_data[i], "sentiment", JNull).t \in {"list", "dict"}
        \/ \E i \in 1..n :
              /\ Truthy(pkh(brands_data[i])) /\ ~Sized(pkh(brands_data[i]))
              /\ \A j \in 1..(i-1) : ~Truthy(pkh(brands_data[j]))
        \/ \E i \in 1..n :
              /\ pkh(brands_data[i]).t = "list"
              /\ \E e \in 1..Len(pkh(brands_data[i]).items) :
                    pkh(brands_data[i]).items[e].t \in {"list", "dict"}

(* ---------------------------------------------------------------------- *)
(* Cost computation                                                        *)
(* ---------------------------------------------------------------------- *)
\* price table, USD per 1M tokens, in money units per token
pricing(model_id) ==
    CASE model_id = "openai/gpt-4o" -> [input |-> 100, output |-> 300]
      [] model_id = "openai/gpt-4o-mini" -> [input |-> 3, output |-> 12]
      [] model_id = "anthropic/claude-3-5-sonnet" -> [input |-> 60, output |-> 300]
      [] model_id = "anthropic/claude-3-opus" -> [input |-> 300, output |-> 1500]
      [] model_id = "google/gemini-1.5-pro" -> [input |-> 140, output |-> 420]
      [] OTHER -> [input |-> 100, output |-> 300]

\* usage.get("prompt_tokens", 0), usage.get("completion_tokens", 0)
calculate_cost(model_id, usage) ==
    usage.prompt_tokens * pricing(model_id).input
    + usage.completion_tokens * pricing(model_id).output

\* len(prompt) of _build_prompt(keyword)
PromptLen(keyword) == PromptTemplateLen + KeywordLen(keyword)

estimate_cost(model_id, keyword) ==
    calculate_cost(model_id,
        [prompt_tokens |-> PromptLen(keyword) \div 4,
         completion_tokens |-> estimated_output_tokens])

\* what a Numeric(10, 4) column keeps of an amount
Numeric4(amount) ==
    ((amount + NumericScaleUnit \div 2) \div NumericScaleUnit) * NumericScaleUnit

(* ---------------------------------------------------------------------- *)
(* CostTracker and CircuitBreaker                                          *)
(* ---------------------------------------------------------------------- *)
\* lines 71-74: the day total after the reset test; rolled: today >
\* last_reset
reset_if_new_day(daily, rolled) == IF rolled THEN 0 ELSE daily

\* lines 76-84
check_cost_limit(daily, ceiling, estimated_cost) ==
    /\ ~(estimated_cost > ceiling)
    /\ ~(daily + estimated_cost > max_daily_cost)

\* an add_cost that books nothing
add_cost_Dropped(daily, actual_cost) == daily

\* lines 86-89
add_cost(daily, actual_cost) == daily + actual_cost

NewCircuitBreaker ==
    [state |-> "closed", failure_count |-> 0, has_last_failure |-> FALSE]

SecondsPerDay == 24 * 3600

\* timedelta.seconds of a non-negative difference of elapsed seconds: the
\* days are a field of their own
timedelta_seconds(elapsed) == elapsed % SecondsPerDay

\* a can_execute that clears the counter when it lets the probe through
can_execute_ResetsCount(cb, elapsed) ==
    CASE cb.state = "closed" -> [allowed |-> TRUE, cb |-> cb]
      [] cb.state = "open" ->
            IF cb.has_last_failure
               /\ timedelta_seconds(elapsed) >= recovery_timeout
            THEN [allowed |-> TRUE,
                  cb |-> [cb EXCEPT !.state = "half_open",
                                    !.failure_count = 0]]
            ELSE [allowed |-> FALSE, cb |-> cb]
      [] cb.state = "half_open" -> [allowed |-> TRUE, cb |-> cb]
      [] OTHER -> [allowed |-> FALSE, cb |-> cb]

\* can_execute at a time elapsed seconds after the last failure:
\* the answer and the breaker afterwards
can_execute(cb, elapsed) ==
    CASE cb.state = "closed" -> [allowed |-> TRUE, cb |-> cb]
      [] cb.state = "open" ->
            IF cb.has_last_failure
               /\ timedelta_seconds(elapsed) >= recovery_timeout
            THEN [allowed |-> TRUE, cb |-> [cb EXCEPT !.state = "half_open"]]
            ELSE [allowed |-> FALSE, cb |-> cb]
      [] cb.state = "half_open" -> [allowed |-> TRUE, cb |-> cb]
      [] OTHER -> [allowed |-> FALSE, cb |-> cb]

\* a record_success that closes the breaker and keeps the counter
record_success_KeepsCount(cb) == [cb EXCEPT !.state = "closed"]

record_success(cb) == [cb EXCEPT !.failure_count = 0, !.state = "closed"]

\* a breaker that opens one failure late
record_failure_AboveThreshold(cb) ==
    LET n == cb.failure_count + 1
    IN  [state |-> IF n > failure_threshold THEN "open" ELSE cb.state,
         failure_count |-> n,
         has_last_failure |-> TRUE]

record_failure(cb) ==
    LET n == cb.failure_count + 1
    IN  [state |-> IF n >= failure_threshold THEN "open" ELSE cb.state,
         failure_count |-> n,
         has_last_failure |-> TRUE]

(* ---------------------------------------------------------------------- *)
(* Provider responses                                                      *)
(* ---------------------------------------------------------------------- *)
Fields1(k1, v1) == [k \in {k1} |-> v1]
Fields2(k1, v1, k2, v2) == [k \in {k1, k2} |-> IF k = k1 THEN v1 ELSE v2]

BrandFull ==
    JDict([k \in {"name", "sentiment", "has_link",
                  "positioning_keywords_hit", "accuracy_score"} |->
            CASE k = "name" -> JStr("Acme")
              [] k = "sentiment" -> JStr("Positive")
              [] k = "has_link" -> JBool(TRUE)
              [] k = "positioning_keywords_hit" -> JList(<<JStr("fast")>>)
              [] k = "accuracy_score" -> JInt(8)])

ResponseOk ==
    JDict(Fields2("brands", JList(<<BrandFull>>),
                  "total_brands_mentioned", JInt(1)))
ResponseNoBrands == JDict(Fields1("brands", JList(<<>>)))
ResponseEmptyDict == JDict(EmptyFields)
\* a brand without a name
ResponseBadShape ==
    JDict(Fields1("brands",
        JList(<<JDict(Fields1("sentiment", JStr("Positive")))>>)))
\* passes validate_response, but max("one", 1) raises in calculate_metrics
ResponseBadTotal ==
    JDict(Fields2("brands", JList(<<JDict(Fields1("name", JStr("Acme")))>>),
                  "total_brands_mentioned", JStr("one")))

NoUsage == [present |-> FALSE, prompt_tokens |-> 0, completion_tokens |-> 0,
            total_tokens |-> 0]
UsageNormal == [present |-> TRUE, prompt_tokens |-> 806,
                completion_tokens |-> 200, total_tokens |-> 1006]
\* a provider that reports an enormous completion (105 USD at gpt-4o prices)
UsageHuge == [present |-> TRUE, prompt_tokens |-> 0,
              completion_tokens |-> 7000000, total_tokens |-> 7000000]

\* content of choices[0].message.content: raw is "empty" (None or ""),
\* "malformed" (json.loads raises) or "json" (json.loads gives value)
Content(raw, value) == [raw |-> raw, value |-> value]

Outcome(kind, content, usage) ==
    [kind |-> kind, content |-> content, usage |-> usage]

ProviderOutcomes ==
    { Outcome("network_error", Content("empty", JNull), NoUsage),
      Outcome("http_error", Content("empty", JNull), NoUsage),
      Outcome("ok", Content("malformed", JNull), UsageNormal),
      Outcome("ok", Content("json", ResponseBadShape), UsageNormal),
      Outcome("ok", Content("json", JList(<<>>)), UsageNormal),
      Outcome("ok", Content("empty", JNull), UsageNormal),
      Outcome("ok", Content("json", ResponseEmptyDict), UsageNormal),
      Outcome("ok", Content("json", ResponseNoBrands), UsageNormal),
      Outcome("ok", Content("json", ResponseBadTotal), UsageNormal),
      Outcome("ok", Content("json", ResponseOk), UsageNormal),
      Outcome("ok", Content("json", ResponseOk), NoUsage),
      Outcome("ok", Content("json", ResponseOk), UsageHuge) }

\* json.loads(content) if content else {}
parsed_response(content) ==
    IF content.raw = "json" THEN content.value ELSE ResponseEmptyDict

\* the exception text of one attempt, "" when the attempt succeeds
\* (lines 213-225)
attempt_error(outcome) ==
    CASE outcome.kind = "network_error" -> "ConnectError"
      [] outcome.kind = "http_error" -> "HTTPStatusError"
      [] outcome.content.raw = "malformed" -> "Invalid JSON response"
      [] ~validate_response(parsed_response(outcome.content)) ->
            "Invalid response format"
      [] OTHER -> ""

(* ---------------------------------------------------------------------- *)
(* State                                                                   *)
(* ---------------------------------------------------------------------- *)
VARIABLES
    task,                   \* MonitorTask row with its keywords and models
    max_cost_per_request,   \* settings.MAX_COST_PER_REQUEST
    run,                    \* the persisted TaskRun row
    outputs,                \* persisted ModelOutput rows, in insertion order
    snapshots,              \* persisted MetricsSnapshot rows
    pc,                     \* position of execute_task_run
    ki, mi,                 \* position of the keyword and model loops
    total_tokens, total_cost,
    successful_executions, failed_executions,
    output,                 \* the ModelOutput object execute() works on
    attempt,                \* loop variable of the retry loop
    daily_cost,             \* CostTracker.daily_cost
    circuit_breaker,        \* CircuitBreaker fields
    admitted,               \* number of timestamps RateLimiter.acquire recorded
    trace,                  \* calls made by the current execute(), in order
    precheck,               \* what the two pre-checks of the current execute() returned
    attempt_log,            \* exception text of each attempt of the current execute(), "" for a success
    results,                \* status of the output execute() returned, per pair
    execute_calls,          \* number of execute() invocations, per pair
    db_faults,              \* number of commits that raised so far
    response,               \* argument of _validate_response
    accepted,               \* what _validate_response returned ("True", "False"), "none" before the call
    since_failure,          \* seconds from CircuitBreaker.last_failure_time to now
    callers,                \* position of each coroutine that shares a component
    requests,               \* RateLimiter.requests, as the age in seconds of each timestamp
    lock,                   \* holder of RateLimiter.lock
    window,                 \* ages of the timestamps acquire() recorded in the last 60 seconds
    day_rolled,             \* today > CostTracker.last_reset
    added_today,            \* sum of the amounts passed to add_cost since the last UTC midnight
    consecutive_failures,   \* record_failure() calls since the last record_success()
    observed,               \* the last component call: operation, fields before and after, answer
    executors,              \* the ModelExecutor of each run in flight in one worker process
    arguments,              \* the arguments of a calculator call
    return_value,           \* what the calculator call returned
    monitor_tasks,          \* storage: the MonitorTask row of each task id
    scheduler,              \* TaskWorker.scheduler: running, and its job table
    worker,                 \* the other fields of the TaskWorker
    coroutines,             \* position of main(), of the two loops and of each shutdown() call
    task_runs,              \* storage: the ids of the TaskRun rows
    task_queue,             \* the Redis list "task_queue", head first
    scheduling,             \* the schedule_task() calls of the API process
    history                 \* what the worker did: last sync, polls, runs started

\* the variables of the run pipeline
pipeline_vars == <<task, max_cost_per_request, run, outputs, snapshots, pc,
                   ki, mi, total_tokens, total_cost, successful_executions,
                   failed_executions, output, attempt, daily_cost,
                   circuit_breaker, admitted, trace, precheck, attempt_log,
                   results, execute_calls, db_faults>>

\* the variables of the specifications of the services around the pipeline
worker_vars == <<monitor_tasks, scheduler, worker, coroutines, task_runs,
                 task_queue, scheduling, history>>
service_vars == <<executors, arguments, return_value, worker_vars>>

\* the variables of the component specifications
unit_vars == <<response, accepted, since_failure, callers, requests, lock,
               window, day_rolled, added_today, consecutive_failures,
               observed, service_vars>>

vars == <<pipeline_vars, unit_vars>>

config_vars == <<task, max_cost_per_request>>
storage_vars == <<run, outputs, snapshots>>
loop_vars == <<ki, mi>>
totals_vars == <<total_tokens, total_cost, successful_executions,
                 failed_executions>>
executor_vars == <<daily_cost, circuit_breaker, admitted>>
call_vars == <<output, attempt, trace, precheck, attempt_log>>
ghost_vars == <<results, execute_calls>>

TaskStates == {"active", "inactive", "missing"}
Tasks == [state : TaskStates,
          keywords : Prefixes(KeywordPool),
          models : Prefixes(ModelPool)]

\* the pairs of the task's matrix, as loop positions
Pairs == (1..Len(task.keywords)) \X (1..Len(task.models))
AllPairs == (1..Len(KeywordPool)) \X (1..Len(ModelPool))

Message(text) == [text |-> text, failed |-> 0, total |-> 0]
NoMessage == Message("")

NoOutput ==
    [keyword |-> "", model_id |-> "", status |-> "none",
     error_message |-> "", usage_set |-> FALSE, token_usage |-> 0,
     cost_usd |-> 0, raw_response |-> JNull]

\* ModelOutput(run_id, keyword, model_id, status="pending"): token_usage and
\* cost_usd are None until a value is assigned or the row is inserted
NewModelOutput(keyword, model_id) ==
    [keyword |-> keyword, model_id |-> model_id, status |-> "pending",
     error_message |-> "", usage_set |-> FALSE, token_usage |-> 0,
     cost_usd |-> 0, raw_response |-> JNull]

NoPrecheck == [estimated_cost |-> 0, daily_cost |-> 0,
               cost |-> "not_called", breaker |-> "not_called"]

\* no call on a component outside a run
NoCall == [op |-> "none"]
Coroutines == {"a", "b"}
Idle == [pc |-> "idle", attempt |-> 0, probe |-> FALSE, wake_in |-> 0]

\* the components as their constructors leave them
ComponentsIdle ==
    /\ accepted = "none"
    /\ since_failure = 0
    /\ callers = [c \in Coroutines |-> Idle]
    /\ requests = <<>>
    /\ lock = "free"
    /\ window = <<>>
    /\ day_rolled = FALSE
    /\ added_today = 0
    /\ consecutive_failures = 0
    /\ observed = NoCall

\* the two runs that can be in flight together in one worker process
RunPool == {"run1", "run2"}
\* a run that has not reached line 512
NoExecutor == [pc |-> "none"]
\* a run that has returned: its executor is garbage
ExecutorDropped == [pc |-> "returned"]
RunsIdle == executors = [r \in RunPool |-> NoExecutor]

\* no calculator call
CalculatorIdle == arguments = NoCall /\ return_value = NoCall

\* --- the worker process (app/worker.py) and the storage it reads
TaskIds == {"t1", "t2"}
ShutdownCalls == {"signal", "main"}
ApiCalls == {"call1", "call2"}
MaxRuns == 2
RunIds == 1..MaxRuns

\* no MonitorTask row with this id
NoRow == [row |-> "none"]
StorageEmpty == monitor_tasks = [t \in TaskIds |-> NoRow]

\* a schedule_task() call that has not started
NotScheduling == [step |-> 0, run_id |-> 0, outcome |-> "none", result |-> 0]

\* TaskWorker() (lines 38-43) in a process whose main() has not started
\* it, next to an empty queue and no schedule_task() call
WorkerConstructed ==
    /\ scheduler = [running |-> FALSE, jobs |-> {}]
    /\ worker = [running |-> FALSE, redis_client |-> "None",
                 queue_consumer_task |-> "None", sync_task |-> "None"]
    /\ coroutines = [main |-> "start", consumer |-> "none",
                     resync |-> "none",
                     shutdown |-> [c \in ShutdownCalls |-> "none"],
                     cancelled |-> {}, wait |-> 0]
    /\ task_runs = {}
    /\ task_queue = <<>>
    /\ scheduling = [c \in ApiCalls |-> NotScheduling]
    /\ history = [last_sync |-> NoCall, last_pass |-> "none",
                  invocations |-> [id \in RunIds |-> 0],
                  late_runs |-> 0]

WorkerIdle == StorageEmpty /\ WorkerConstructed

ServicesIdle == RunsIdle /\ CalculatorIdle /\ WorkerIdle

UnitIdle == response = JNull /\ ComponentsIdle /\ ServicesIdle

Init ==
    /\ task \in Tasks
    /\ max_cost_per_request \in MaxCostPerRequestChoices
    /\ run = [status |-> "pending", token_usage |-> 0, cost_usd |-> 0,
              error_message |-> NoMessage, started_at |-> FALSE,
              completed_at |-> FALSE]
    /\ outputs = <<>>
    /\ snapshots = <<>>
    /\ pc = "start"
    /\ ki = 1 /\ mi = 1
    /\ total_tokens = 0 /\ total_cost = 0
    /\ successful_executions = 0 /\ failed_executions = 0
    /\ output = NoOutput
    /\ attempt = 0
    /\ daily_cost = 0
    /\ circuit_breaker = NewCircuitBreaker
    /\ admitted = 0
    /\ trace = <<>>
    /\ precheck = NoPrecheck
    /\ attempt_log = <<>>
    /\ results = [p \in AllPairs |-> "none"]
    /\ execute_calls = [p \in AllPairs |-> 0]
    /\ db_faults = 0
    /\ UnitIdle

(* ---------------------------------------------------------------------- *)
(* execute_task_run: loading the run, the task and the matrix              *)
(* ---------------------------------------------------------------------- *)
\* a commit that raises leaves storage as it was and is counted
CommitFails(n) ==
    /\ db_faults + n <= MaxDbFaults
    /\ db_faults' = db_faults + n

\* an execute_task_run that claims the run: it goes on only from pending
BeginRun_ClaimsPending(fault) ==
    /\ pc = "start"
    /\ CommitFails(IF fault THEN 1 ELSE 0)
    /\ IF fault
       THEN /\ pc' = "critical"
            /\ UNCHANGED run
       ELSE IF run.status # "pending"
            THEN /\ pc' = "done"
                 /\ UNCHANGED run
            ELSE IF task.state # "active"
                 THEN /\ run' = [run EXCEPT !.status = "failed",
                           !.error_message =
                                Message("Task not found or inactive")]
                      /\ pc' = "done"
                 ELSE /\ run' = [run EXCEPT !.status = "running",
                                            !.started_at = TRUE]
                      /\ pc' = "load"
    /\ UNCHANGED <<config_vars, outputs, snapshots, loop_vars, totals_vars,
                   executor_vars, call_vars, ghost_vars>>
    /\ UNCHANGED unit_vars

\* lines 447-487; fault: the commit of this step raises
BeginRun(fault) ==
    /\ pc = "start"
    /\ CommitFails(IF fault THEN 1 ELSE 0)
    /\ IF fault
       THEN /\ pc' = "critical"
            /\ UNCHANGED run
       ELSE IF task.state # "active"
            THEN /\ run' = [run EXCEPT !.status = "failed",
                      !.error_message = Message("Task not found or inactive")]
                 /\ pc' = "done"
            ELSE /\ run' = [run EXCEPT !.status = "running",
                                       !.started_at = TRUE]
                 /\ pc' = "load"
    /\ UNCHANGED <<config_vars, outputs, snapshots, loop_vars, totals_vars,
                   executor_vars, call_vars, ghost_vars>>
    /\ UNCHANGED unit_vars

\* line 505
NoConfig(keywords, models_with_priority) ==
    keywords = <<>> \/ models_with_priority = <<>>

\* a short-circuit that reports the empty run as completed
NoConfigOutcome_Completed ==
    [status |-> "completed",
     error_message |-> Message("No keywords or models configured")]

\* lines 506-507
NoConfigOutcome ==
    [status |-> "failed",
     error_message |-> Message("No keywords or models configured")]

\* lines 491-518
LoadMatrix(fault) ==
    /\ pc = "load"
    /\ CommitFails(IF fault THEN 1 ELSE 0)
    /\ IF NoConfig(task.keywords, task.models)
       THEN IF fault
            THEN pc' = "critical" /\ UNCHANGED run
            ELSE /\ run' = [run EXCEPT !.status = NoConfigOutcome.status,
                        !.error_message = NoConfigOutcome.error_message]
                 /\ pc' = "done"
       ELSE /\ ~fault
            /\ pc' = "execute"
            /\ UNCHANGED run
    /\ daily_cost' = 0
    /\ circuit_breaker' = NewCircuitBreaker
    /\ admitted' = 0
    /\ ki' = 1 /\ mi' = 1
    /\ total_tokens' = 0 /\ total_cost' = 0
    /\ successful_executions' = 0 /\ failed_executions' = 0
    /\ UNCHANGED <<config_vars, outputs, snapshots, call_vars, ghost_vars>>
    /\ UNCHANGED unit_vars

(* ---------------------------------------------------------------------- *)
(* ModelExecutor.execute                                                   *)
(* ---------------------------------------------------------------------- *)
Keyword == task.keywords[ki]
ModelId == task.models[mi]

\* an execute() that does not look at the breaker's answer
precheck_rejection_IgnoresBreaker(cost_ok, breaker_allowed) ==
    IF ~cost_ok THEN "Cost limit exceeded" ELSE ""

\* lines 193-202: the error text of the pre-check that rejects the call,
\* "" when both pass
precheck_rejection(cost_ok, breaker_allowed) ==
    IF ~cost_ok THEN "Cost limit exceeded"
    ELSE IF ~breaker_allowed
         THEN "Circuit breaker open - too many failures"
         ELSE ""

\* lines 178-204: the prompt, the output object and the two pre-checks;
\* elapsed: seconds since the breaker's last recorded failure
ExecuteBegin(elapsed) ==
    /\ pc = "execute"
    /\ LET estimated_cost == estimate_cost(ModelId, Keyword)
           cost_ok == check_cost_limit(daily_cost, max_cost_per_request,
                                       estimated_cost)
           answer == can_execute(circuit_breaker, elapsed)
           rejection == precheck_rejection(cost_ok, answer.allowed)
           fresh == NewModelOutput(Keyword, ModelId)
       IN  /\ circuit_breaker' = IF cost_ok THEN answer.cb ELSE circuit_breaker
           /\ precheck' =
                [estimated_cost |-> estimated_cost,
                 daily_cost |-> daily_cost,
                 cost |-> IF cost_ok THEN "passed" ELSE "rejected",
                 breaker |-> IF ~cost_ok THEN "not_called"
                             ELSE IF answer.allowed THEN "passed"
                             ELSE "rejected"]
           /\ IF rejection # ""
              THEN /\ output' = [fresh EXCEPT !.status = "failed",
                                     !.error_message = rejection]
                   /\ results' = [results EXCEPT ![<<ki, mi>>] = "failed"]
                   /\ pc' = "persist"
              ELSE /\ output' = fresh
                   /\ UNCHANGED results
                   /\ pc' = "attempt"
    /\ attempt' = 0
    /\ trace' = <<>>
    /\ attempt_log' = <<>>
    /\ execute_calls' = [execute_calls EXCEPT ![<<ki, mi>>] = @ + 1]
    /\ UNCHANGED <<config_vars, storage_vars, loop_vars, totals_vars,
                   daily_cost, admitted, db_faults>>
    /\ UNCHANGED unit_vars

\* line 142
max_retries == RATE_LIMIT_MAX_RETRIES

\* an off-by-one in the test for the last attempt
is_last_attempt_OffByOne(a) == a = max_retries

\* line 251
is_last_attempt(a) == a = max_retries - 1

\* a retry loop without the break after a success
loop_continues_NoBreak(a, succeeded) == a + 1 < max_retries

\* lines 207 and 245: whether the retry loop runs another iteration after
\* iteration a
loop_continues(a, succeeded) == ~succeeded /\ a + 1 < max_retries

\* lines 207-258: one iteration of the retry loop, with the provider's
\* answer to this call.  A run over the pools makes at most 4 * 3 calls,
\* fewer than RATE_LIMIT_REQUESTS_PER_MINUTE = 20, so acquire() finds room
\* in its window and records the timestamp at once.
Attempt(outcome) ==
    /\ pc = "attempt"
    /\ admitted' = admitted + 1
    /\ LET error == attempt_error(outcome)
           actual_cost == calculate_cost(output.model_id, outcome.usage)
           returned ==
               IF error = ""
               THEN [output EXCEPT
                        !.raw_response = parsed_response(outcome.content),
                        !.usage_set = TRUE,
                        !.token_usage = outcome.usage.total_tokens,
                        !.cost_usd = actual_cost,
                        !.status = "completed"]
               ELSE IF is_last_attempt(attempt)
                    THEN [output EXCEPT !.status = "failed",
                                        !.error_message = error]
                    ELSE output
       IN  /\ attempt_log' = Append(attempt_log, error)
           /\ output' = returned
           /\ IF error = ""
              THEN /\ daily_cost' = add_cost(daily_cost, actual_cost)
                   /\ circuit_breaker' = record_success(circuit_breaker)
                   /\ trace' = trace \o <<"acquire", "call_api", "add_cost",
                                          "record_success">>
              ELSE /\ circuit_breaker' = record_failure(circuit_breaker)
                   /\ UNCHANGED daily_cost
                   /\ trace' = trace \o <<"acquire", "call_api",
                                          "record_failure">>
                               \o (IF is_last_attempt(attempt)
                                   THEN <<>> ELSE <<"sleep">>)
           /\ IF loop_continues(attempt, error = "")
              THEN /\ attempt' = attempt + 1
                   /\ UNCHANGED <<results, pc>>
              ELSE /\ results' = [results EXCEPT ![<<ki, mi>>] = returned.status]
                   /\ pc' = "persist"
                   /\ UNCHANGED attempt
    /\ UNCHANGED <<config_vars, storage_vars, loop_vars, totals_vars,
                   precheck, execute_calls, db_faults>>
    /\ UNCHANGED unit_vars

(* ---------------------------------------------------------------------- *)
(* execute_task_run: one pair of the matrix after execute() has returned   *)
(* ---------------------------------------------------------------------- *)
\* the row an INSERT of a ModelOutput object writes: the column defaults
\* fill token_usage and cost_usd when they are None, Numeric(10, 4) rounds
OutputRow(o) ==
    [keyword |-> o.keyword, model_id |-> o.model_id, status |-> o.status,
     token_usage |-> IF o.usage_set THEN o.token_usage ELSE 0,
     cost_usd |-> IF o.usage_set THEN Numeric4(o.cost_usd) ELSE 0]

\* lines 564-570
FailedOutputRow(keyword, model_id) ==
    [keyword |-> keyword, model_id |-> model_id, status |-> "failed",
     token_usage |-> 0, cost_usd |-> 0]

SnapshotRow(o) == [keyword |-> o.keyword, model_id |-> o.model_id]

\* lines 537-551: the MetricsSnapshot rows added for an output
MetricsFor(o) ==
    IF /\ o.status = "completed"
       /\ Truthy(o.raw_response)
       /\ ~calculate_metrics_raises(o.raw_response)
    THEN <<SnapshotRow(o)>>
    ELSE <<>>

\* loops that stop at the first pair that did not complete
AfterPair_AbortOnFailure ==
    IF output.status # "completed"
    THEN [ki |-> ki, mi |-> mi, pc |-> "finish"]
    ELSE IF mi < Len(task.models)
         THEN [ki |-> ki, mi |-> mi + 1, pc |-> "execute"]
         ELSE IF ki < Len(task.keywords)
              THEN [ki |-> ki + 1, mi |-> 1, pc |-> "execute"]
              ELSE [ki |-> ki, mi |-> mi, pc |-> "finish"]

\* loops with the models outside and the keywords inside
AfterPair_ModelMajor ==
    IF ki < Len(task.keywords)
    THEN [ki |-> ki + 1, mi |-> mi, pc |-> "execute"]
    ELSE IF mi < Len(task.models)
         THEN [ki |-> 1, mi |-> mi + 1, pc |-> "execute"]
         ELSE [ki |-> ki, mi |-> mi, pc |-> "finish"]

\* lines 520-521: where the loops stand after the current pair
AfterPair ==
    IF mi < Len(task.models)
    THEN [ki |-> ki, mi |-> mi + 1, pc |-> "execute"]
    ELSE IF ki < Len(task.keywords)
         THEN [ki |-> ki + 1, mi |-> 1, pc |-> "execute"]
         ELSE [ki |-> ki, mi |-> mi, pc |-> "finish"]

GoOn ==
    /\ ki' = AfterPair.ki
    /\ mi' = AfterPair.mi
    /\ pc' = AfterPair.pc

\* lines 533-572; faults: how many of the commits this step reaches raise
\* (the commit of line 557 first, then the one of line 572)
PersistOutput(faults) ==
    /\ pc = "persist"
    /\ CommitFails(faults)
    /\ IF ~output.usage_set
       THEN \* line 534: int += None raises TypeError after session.add(output)
            /\ faults <= 1
            /\ failed_executions' = failed_executions + 1
            /\ UNCHANGED <<total_tokens, total_cost, successful_executions>>
            /\ IF faults = 0
               THEN /\ outputs' = outputs \o
                        <<OutputRow(output),
                          FailedOutputRow(output.keyword, output.model_id)>>
                    /\ GoOn
               ELSE /\ pc' = "critical"
                    /\ UNCHANGED <<outputs, loop_vars>>
            /\ UNCHANGED snapshots
       ELSE /\ total_tokens' = total_tokens + output.token_usage
            /\ total_cost' = total_cost + output.cost_usd
            /\ successful_executions' = successful_executions
                    + (IF output.status = "completed" THEN 1 ELSE 0)
            /\ failed_executions' = failed_executions
                    + (IF output.status = "completed" THEN 0 ELSE 1)
                    + (IF faults > 0 THEN 1 ELSE 0)
            /\ CASE faults = 0 ->
                        /\ outputs' = Append(outputs, OutputRow(output))
                        /\ snapshots' = snapshots \o MetricsFor(output)
                        /\ GoOn
                 [] faults = 1 ->
                        /\ outputs' = Append(outputs,
                              FailedOutputRow(output.keyword, output.model_id))
                        /\ UNCHANGED snapshots
                        /\ GoOn
                 [] OTHER ->
                        /\ pc' = "critical"
                        /\ UNCHANGED <<outputs, snapshots, loop_vars>>
    /\ output' = NoOutput
    /\ trace' = <<>>
    /\ precheck' = NoPrecheck
    /\ attempt_log' = <<>>
    /\ UNCHANGED <<config_vars, run, executor_vars, attempt, ghost_vars>>
    /\ UNCHANGED unit_vars

(* ---------------------------------------------------------------------- *)
(* execute_task_run: totals, final status, critical-error handler          *)
(* ---------------------------------------------------------------------- *)
\* a status rule that does not look at the failures
final_status_IgnoresFailures(successful, failed) ==
    IF successful > 0
    THEN [status |-> "completed", error_message |-> NoMessage]
    ELSE [status |-> "failed",
          error_message |-> Message("All executions failed")]

\* lines 580-588
final_status(successful, failed) ==
    IF successful > 0
    THEN IF failed = 0
         THEN [status |-> "completed", error_message |-> NoMessage]
         ELSE [status |-> "partial",
               error_message |-> [text |-> "executions failed",
                                  failed |-> failed,
                                  total |-> successful + failed]]
    ELSE [status |-> "failed",
          error_message |-> Message("All executions failed")]

\* lines 574-590
FinishRun(fault) ==
    /\ pc = "finish"
    /\ CommitFails(IF fault THEN 1 ELSE 0)
    /\ IF fault
       THEN /\ pc' = "critical"
            /\ UNCHANGED run
       ELSE /\ LET final == final_status(successful_executions,
                                         failed_executions)
               IN  run' = [run EXCEPT
                        !.token_usage = total_tokens,
                        !.cost_usd = Numeric4(total_cost),
                        !.completed_at = TRUE,
                        !.status = final.status,
                        !.error_message =
                            IF final.status = "completed"
                            THEN run.error_message
                            ELSE final.error_message]
            /\ pc' = "done"
    /\ UNCHANGED <<config_vars, outputs, snapshots, loop_vars, totals_vars,
                   executor_vars, call_vars, ghost_vars>>
    /\ UNCHANGED unit_vars

\* lines 601-611
CriticalError(fault) ==
    /\ pc = "critical"
    /\ CommitFails(IF fault THEN 1 ELSE 0)
    /\ IF fault
       THEN UNCHANGED run
       ELSE run' = [run EXCEPT !.status = "failed",
                        !.error_message = Message("Critical error"),
                        !.completed_at = TRUE]
    /\ pc' = "done"
    /\ UNCHANGED <<config_vars, outputs, snapshots, loop_vars, totals_vars,
                   executor_vars, call_vars, ghost_vars>>
    /\ UNCHANGED unit_vars

(* ---------------------------------------------------------------------- *)
(* Specifications                                                          *)
(* ---------------------------------------------------------------------- *)
\* storage commits succeed
Next ==
    \/ BeginRun(FALSE)
    \/ LoadMatrix(FALSE)
    \/ \E elapsed \in ElapsedChoices : ExecuteBegin(elapsed)
    \/ \E outcome \in ProviderOutcomes : Attempt(outcome)
    \/ PersistOutput(0)
    \/ FinishRun(FALSE)

Spec == Init /\ [][Next]_vars

\* up to MaxDbFaults storage commits raise
NextFault ==
    \/ \E fault \in BOOLEAN : BeginRun(fault)
    \/ \E fault \in BOOLEAN : LoadMatrix(fault)
    \/ \E elapsed \in ElapsedChoices : ExecuteBegin(elapsed)
    \/ \E outcome \in ProviderOutcomes : Attempt(outcome)
    \/ \E faults \in 0..2 : PersistOutput(faults)
    \/ \E fault \in BOOLEAN : FinishRun(fault)
    \/ \E fault \in BOOLEAN : CriticalError(fault)

SpecFault == Init /\ [][NextFault]_vars

(* ---------------------------------------------------------------------- *)
(* Properties                                                              *)
(* ---------------------------------------------------------------------- *)
TerminalStatuses == {"completed", "partial", "failed"}

PairOf(row) ==
    CHOOSE p \in AllPairs :
        KeywordPool[p[1]] = row.keyword /\ ModelPool[p[2]] = row.model_id

\* rows of a table that belong to the pair p
RowsOf(rows, p) == {i \in 1..Len(rows) : PairOf(rows[i]) = p}

RECURSIVE SumTokens(_)
SumTokens(rows) ==
    IF rows = <<>> THEN 0 ELSE Head(rows).token_usage + SumTokens(Tail(rows))

RECURSIVE SumCost(_)
SumCost(rows) ==
    IF rows = <<>> THEN 0 ELSE Head(rows).cost_usd + SumCost(Tail(rows))

Count(seq, x) == Cardinality({i \in 1..Len(seq) : seq[i] = x})

CompletedPairs == {p \in Pairs : results[p] = "completed"}
FailedPairs == {p \in Pairs : results[p] # "completed"}

\* the run went through its whole matrix and set its final status
MatrixDone ==
    /\ pc = "done"
    /\ task.state = "active"
    /\ ~NoConfig(task.keywords, task.models)

C3_NoConfigFailsWithoutCalls ==
    (pc = "done" /\ NoConfig(task.keywords, task.models)) =>
        /\ run.status = "failed"
        /\ outputs = <<>>
        /\ snapshots = <<>>
        /\ \A p \in AllPairs : execute_calls[p] = 0
        /\ admitted = 0
        /\ trace = <<>>

C3_Witness ==
    /\ pc = "done"
    /\ task.state = "active"
    /\ task.keywords = <<>>
    /\ task.models # <<>>
    /\ run.status = "failed"
    /\ run.error_message.text = "No keywords or models configured"

\* C4 (as claimed): when f pairs of a k x m matrix end failed (0 < f < k*m)
\* and the others complete with validated JSON, the run is partial, its
\* error message reports f failed out of k*m, and k*m - f MetricsSnapshot
\* rows exist.
C4_PartialRunCounts ==
    (MatrixDone /\ FailedPairs # {} /\ CompletedPairs # {}) =>
        /\ run.status = "partial"
        /\ run.error_message.failed = Cardinality(FailedPairs)
        /\ run.error_message.total = Cardinality(Pairs)
        /\ Len(snapshots) = Cardinality(Pairs) - Cardinality(FailedPairs)

\* C5 (as claimed): at the end of a run every pair whose output is completed
\* has exactly one MetricsSnapshot row and every other pair has none.
C5_SnapshotIffCompleted ==
    MatrixDone =>
        \A p \in Pairs :
            Cardinality(RowsOf(snapshots, p)) =
                IF results[p] = "completed" THEN 1 ELSE 0

\* C6 (as claimed): after the matrix has been processed the run has exactly
\* one ModelOutput row per pair, |keywords| * |models| rows in total.
C6_OneOutputRowPerPair ==
    MatrixDone =>
        /\ Len(outputs) = Cardinality(Pairs)
        /\ \A p \in Pairs : Cardinality(RowsOf(outputs, p)) = 1

\* C7 (as claimed): a run in a terminal status carries the sums of
\* token_usage and cost_usd of its persisted ModelOutput rows.
C7_TotalsEqualRowSums ==
    run.status \in TerminalStatuses =>
        /\ run.token_usage = SumTokens(outputs)
        /\ run.cost_usd = SumCost(outputs)

\* C8: when the cost pre-check rejects the estimate (estimate above the
\* per-call ceiling, or day total plus estimate above the daily ceiling) or
\* can_execute() answers false, execute() returns a failed output without
\* any provider call, acquire, record_failure or add_cost.
PrecheckCalled == precheck.cost # "not_called"

C8_RejectedCallDoesNothing ==
    (/\ PrecheckCalled
     /\ \/ precheck.estimated_cost > max_cost_per_request
        \/ precheck.daily_cost + precheck.estimated_cost > max_daily_cost
        \/ precheck.breaker = "rejected")
    => /\ pc = "persist"
       /\ output.status = "failed"
       /\ output.error_message \in {"Cost limit exceeded",
                "Circuit breaker open - too many failures"}
       /\ trace = <<>>
       /\ attempt_log = <<>>
       /\ daily_cost = precheck.daily_cost

C8_Witness ==
    /\ pc = "persist"
    /\ precheck.cost = "passed"
    /\ precheck.breaker = "rejected"
    /\ circuit_breaker.state = "open"

\* C9: an execute() that passed both pre-checks makes at most max_retries
\* provider calls, each directly preceded by one acquire, none after the
\* first successful attempt, and returns a completed output iff some
\* attempt succeeded.
PrecheckPassed == precheck.cost = "passed" /\ precheck.breaker = "passed"

FailedAttempts == {i \in 1..Len(attempt_log) : attempt_log[i] # ""}

C10_FailureHandling ==
    PrecheckPassed =>
        /\ Count(trace, "record_failure") = Cardinality(FailedAttempts)
        /\ Count(trace, "sleep") =
                Cardinality(FailedAttempts \ {RATE_LIMIT_MAX_RETRIES})
        /\ \A i \in 1..Len(trace) :
                trace[i] = "sleep" => trace[i-1] = "record_failure"
        /\ output.status = "failed" <=>
                /\ Len(attempt_log) = RATE_LIMIT_MAX_RETRIES
                /\ FailedAttempts = 1..RATE_LIMIT_MAX_RETRIES
        /\ output.status = "failed" =>
                output.error_message = attempt_log[RATE_LIMIT_MAX_RETRIES]
        /\ pc = "persist" => output.status \in {"completed", "failed"}

C10_Witness ==
    /\ pc = "persist"
    /\ PrecheckPassed
    /\ output.status = "failed"
    /\ attempt_log = <<"HTTPStatusError", "Invalid JSON response",
                       "Invalid response format">>

(* ---------------------------------------------------------------------- *)
(* Component specifications: the pipeline stands still                     *)
(* ---------------------------------------------------------------------- *)
PipelineIdle ==
    /\ task = [state |-> "missing", keywords |-> <<>>, models |-> <<>>]
    /\ max_cost_per_request = MAX_COST_PER_REQUEST
    /\ run = [status |-> "pending", token_usage |-> 0, cost_usd |-> 0,
              error_message |-> NoMessage, started_at |-> FALSE,
              completed_at |-> FALSE]
    /\ outputs = <<>>
    /\ snapshots = <<>>
    /\ pc = "component"
    /\ ki = 1 /\ mi = 1
    /\ total_tokens = 0 /\ total_cost = 0
    /\ successful_executions = 0 /\ failed_executions = 0
    /\ output = NoOutput
    /\ attempt = 0
    /\ daily_cost = 0
    /\ circuit_breaker = NewCircuitBreaker
    /\ admitted = 0
    /\ trace = <<>>
    /\ precheck = NoPrecheck
    /\ attempt_log = <<>>
    /\ results = [p \in AllPairs |-> "none"]
    /\ execute_calls = [p \in AllPairs |-> 0]
    /\ db_faults = 0

(* ---------------------------------------------------------------------- *)
(* ModelExecutor._validate_response on parsed provider content             *)
(* ---------------------------------------------------------------------- *)
\* a key the dict does not have
Absent == [t |-> "absent"]

NameChoices == {Absent, JNull, JStr("Acme"), JStr(""), JInt(7)}
SentimentChoices ==
    {Absent, JNull, JStr("Positive"), JStr("Neutral"), JStr("Negative"),
     JStr("Mixed"), JStr("positive"), JStr(""), JBool(FALSE), JInt(0),
     JList(<<>>)}
AccuracyScoreChoices ==
    {Absent, JNull, JInt(0), JInt(1), JInt(10), JInt(11), JInt(-1),
     JBool(TRUE), JBool(FALSE), JStr("8"), JStr("")}

\* the dict with the given values, without the keys whose value is Absent
DictOf(fields) ==
    JDict([k \in {key \in DOMAIN fields : fields[key] # Absent} |-> fields[k]])

Brand(name, sentiment, accuracy_score) ==
    DictOf([k \in {"name", "sentiment", "accuracy_score"} |->
              CASE k = "name" -> name
                [] k = "sentiment" -> sentiment
                [] k = "accuracy_score" -> accuracy_score])

Brands ==
    {Brand(n, s, a) : n \in NameChoices, s \in SentimentChoices,
                      a \in AccuracyScoreChoices}

\* values json.loads can give for the content of a completion
ParsedResponses ==
    {JList(<<>>), JStr("brands"), JNull, JInt(3), ResponseEmptyDict,
     ResponseNoBrands, ResponseOk, ResponseBadShape, ResponseBadTotal,
     JDict(Fields1("brands", JNull)),
     JDict(Fields1("brands", BrandFull)),
     JDict(Fields1("brands", JList(<<JStr("Acme")>>))),
     JDict(Fields1("summary", JStr("none")))}
    \cup {JDict(Fields1("brands", JList(<<b>>))) : b \in Brands}
    \cup {JDict(Fields1("brands", JList(<<BrandFull, b>>))) : b \in Brands}

\* a returned bool, told apart from "none"
Returned(b) == IF b THEN "True" ELSE "False"

InitValidate ==
    /\ PipelineIdle
    /\ ComponentsIdle
    /\ ServicesIdle
    /\ response \in ParsedResponses

\* lines 221-225 with the content already parsed: the error text of the
\* attempt goes to observed
ValidateResponse ==
    /\ pc = "component"
    /\ accepted = "none"
    /\ accepted' = Returned(validate_response(response))
    /\ observed' = [op |-> "_validate_response",
                    error |-> attempt_error(
                        Outcome("ok", Content("json", response), UsageNormal))]
    /\ UNCHANGED <<pipeline_vars, response, since_failure, callers, requests,
                   lock, window, day_rolled, added_today,
                   consecutive_failures, service_vars>>

NextValidate == ValidateResponse

SpecValidate == InitValidate /\ [][NextValidate]_vars

\* the rule of the claim for one entry of brands: null counts as absent, a
\* boolean is not an integer
PresentIn(d, key) == key \in DOMAIN d.fields /\ d.fields[key] # JNull

BrandAsClaimed(brand) ==
    /\ brand.t = "dict"
    /\ "name" \in DOMAIN brand.fields
    /\ brand.fields["name"].t = "str"
    /\ PresentIn(brand, "sentiment") =>
            /\ brand.fields["sentiment"].t = "str"
            /\ brand.fields["sentiment"].s \in ValidSentiments
    /\ PresentIn(brand, "accuracy_score") =>
            /\ brand.fields["accuracy_score"].t = "int"
            /\ brand.fields["accuracy_score"].n \in 1..10

ResponseAsClaimed(r) ==
    /\ r.t = "dict"
    /\ "brands" \in DOMAIN r.fields =>
            /\ r.fields["brands"].t = "list"
            /\ \A i \in 1..Len(r.fields["brands"].items) :
                    BrandAsClaimed(r.fields["brands"].items[i])

\* C11 (as claimed): _validate_response accepts a parsed response iff it is
\* an object whose brands, when present, is a list of objects, each with a
\* string name, a sentiment that is absent or one of Positive, Neutral,
\* Negative and an accuracy_score that is absent or an integer in [1,10];
\* a rejected response makes the attempt fail.
C11_ValidatesExactly ==
    accepted # "none" =>
        /\ accepted = Returned(ResponseAsClaimed(response))
        /\ accepted = "False" <=> observed.error = "Invalid response format"

(* ---------------------------------------------------------------------- *)
(* CircuitBreaker shared by concurrent execute() calls, with time          *)
(* ---------------------------------------------------------------------- *)
MaxFailures == 7
MaxElapsedDays == 1

\* the steps in which time passes
BreakerTicks == {recovery_timeout \div 2, SecondsPerDay}
\* the values of now - last_failure_time the model goes through
ElapsedTimes ==
    {d * SecondsPerDay + k * (recovery_timeout \div 2) :
        d \in 0..MaxElapsedDays, k \in 0..2}

non_breaker_vars == <<config_vars, storage_vars, pc, loop_vars, totals_vars,
                      daily_cost, admitted, call_vars, ghost_vars, db_faults,
                      response, accepted, requests, lock, window, day_rolled,
                      added_today, service_vars>>

InitBreaker == PipelineIdle /\ UnitIdle

\* the coroutines between a can_execute() that admitted them as the
\* half-open probe and their first record_success() or record_failure()
Probes == {c \in Coroutines : callers[c].probe}

BreakerTick(d) ==
    /\ pc = "component"
    /\ circuit_breaker.has_last_failure
    /\ since_failure + d \in ElapsedTimes
    /\ since_failure' = since_failure + d
    /\ UNCHANGED <<non_breaker_vars, circuit_breaker, callers,
                   consecutive_failures, observed>>

\* lines 198-204 of execute() in coroutine c
CanExecute(c) ==
    /\ pc = "component"
    /\ callers[c].pc = "idle"
    /\ LET answer == can_execute(circuit_breaker, since_failure)
       IN  /\ circuit_breaker' = answer.cb
           /\ observed' = [op |-> "can_execute",
                           before |-> circuit_breaker,
                           after |-> answer.cb,
                           elapsed |-> since_failure,
                           answer |-> answer.allowed]
           /\ callers' = [callers EXCEPT ![c] =
                    IF answer.allowed
                    THEN [Idle EXCEPT !.pc = "admitted",
                                      !.probe = (answer.cb.state = "half_open")]
                    ELSE Idle]
    /\ UNCHANGED <<non_breaker_vars, since_failure, consecutive_failures>>

\* lines 243-245 in coroutine c
RecordSuccess(c) ==
    /\ pc = "component"
    /\ callers[c].pc = "admitted"
    /\ circuit_breaker' = record_success(circuit_breaker)
    /\ consecutive_failures' = 0
    /\ observed' = [op |-> "record_success",
                    before |-> circuit_breaker,
                    after |-> record_success(circuit_breaker),
                    elapsed |-> since_failure]
    /\ callers' = [callers EXCEPT ![c] = Idle]
    /\ UNCHANGED <<non_breaker_vars, since_failure>>

\* lines 247-258 in coroutine c
RecordFailure(c) ==
    /\ pc = "component"
    /\ callers[c].pc = "admitted"
    /\ circuit_breaker.failure_count < MaxFailures
    /\ circuit_breaker' = record_failure(circuit_breaker)
    /\ since_failure' = 0
    /\ consecutive_failures' = consecutive_failures + 1
    /\ observed' = [op |-> "record_failure",
                    before |-> circuit_breaker,
                    after |-> record_failure(circuit_breaker),
                    elapsed |-> 0]
    /\ callers' = [callers EXCEPT ![c] =
            IF loop_continues(callers[c].attempt, FALSE)
            THEN [@ EXCEPT !.attempt = @ + 1, !.probe = FALSE]
            ELSE Idle]
    /\ UNCHANGED non_breaker_vars

NextBreaker ==
    \/ \E d \in BreakerTicks : BreakerTick(d)
    \/ \E c \in Coroutines : CanExecute(c)
    \/ \E c \in Coroutines : RecordSuccess(c)
    \/ \E c \in Coroutines : RecordFailure(c)

SpecBreaker == InitBreaker /\ [][NextBreaker]_vars

\* C12: once failure_threshold failures have been recorded with no success
\* in between, the breaker is open and can_execute() answers false while
\* fewer than recovery_timeout seconds have passed since the last failure;
\* with fewer consecutive failures it is closed and can_execute() answers
\* true.
C12_OpensAtThreshold ==
    /\ (consecutive_failures >= failure_threshold
        /\ since_failure < recovery_timeout)
            => /\ circuit_breaker.state = "open"
               /\ ~can_execute(circuit_breaker, since_failure).allowed
    /\ consecutive_failures < failure_threshold
            => /\ circuit_breaker.state = "closed"
               /\ can_execute(circuit_breaker, since_failure).allowed

C12_Witness ==
    /\ consecutive_failures = failure_threshold
    /\ since_failure = recovery_timeout \div 2
    /\ observed.op = "can_execute"
    /\ observed.before.state = "open"
    /\ ~observed.answer

\* C13 (as claimed): in half_open one probe is admitted; no further
\* can_execute() answers true until the probe has recorded its outcome.
C13_SingleProbe == Cardinality(Probes) <= 1

\* C14: from half_open, record_success() gives closed with the counter at
\* 0, and record_failure() gives open with the last-failure time set to
\* now, so that can_execute() answers false again.
C14_HalfOpenTransitions ==
    /\ (observed.op = "record_success"
        /\ observed.before.state = "half_open")
            => /\ observed.after.state = "closed"
               /\ observed.after.failure_count = 0
    /\ (observed.op = "record_failure"
        /\ observed.before.state = "half_open")
            => /\ observed.after.state = "open"
               /\ observed.after.has_last_failure
               /\ observed.elapsed = 0
               /\ ~can_execute(observed.after, observed.elapsed).allowed

C14_Witness ==
    /\ observed.op = "record_failure"
    /\ observed.before.state = "half_open"
    /\ circuit_breaker.state = "open"
    /\ since_failure = 0

\* C15 (as claimed): no provider call is started while the breaker of the
\* executor is open.
C15_NoCallWhileOpen ==
    [][admitted' = admitted + 1 => circuit_breaker.state # "open"]_vars

\* C16 (as claimed): can_execute() leaves the state, the failure counter
\* and the last-failure time of the breaker as they were.
C16_CanExecuteIsPure ==
    observed.op = "can_execute" => observed.after = observed.before

(* ---------------------------------------------------------------------- *)
(* RateLimiter shared by concurrent acquire() calls, with time             *)
(* ---------------------------------------------------------------------- *)
MaxRequestsPerMinute == 2
\* RateLimiter(requests_per_minute): the capacity of the limiter
requests_per_minute == MaxRequestsPerMinute
\* lines 44 and 49
WindowSeconds == 60
\* the steps in which time passes
LimiterTicks == {WindowSeconds \div 4, WindowSeconds \div 2}

Min(a, b) == IF a <= b THEN a ELSE b
Max(a, b) == IF a >= b THEN a ELSE b

RECURSIVE MaxOf(_)
MaxOf(seq) ==
    IF Len(seq) = 1 THEN Head(seq) ELSE Max(Head(seq), MaxOf(Tail(seq)))

InWindow(age) == age < WindowSeconds

\* line 44: the timestamps less than a minute old
recent(reqs) == SelectSeq(reqs, InWindow)

\* a limiter that lets one request too many through
window_full_OffByOne(reqs) == Len(reqs) > requests_per_minute

\* line 46
window_full(reqs) == Len(reqs) >= requests_per_minute

\* lines 48-49: now - min(requests) is the age of the oldest timestamp
wait_time(reqs) == WindowSeconds - MaxOf(reqs)

non_limiter_vars == <<pipeline_vars, response, accepted, since_failure,
                      day_rolled, added_today, consecutive_failures,
                      observed, service_vars>>

InitLimiter == PipelineIdle /\ UnitIdle

\* ages grow with time; an age of WindowSeconds stands for any older one
LimiterTick(d) ==
    /\ pc = "component"
    /\ requests' = [i \in 1..Len(requests) |->
                        Min(requests[i] + d, WindowSeconds)]
    /\ window' = recent([i \in 1..Len(window) |->
                        Min(window[i] + d, WindowSeconds)])
    /\ callers' = [c \in Coroutines |->
            [callers[c] EXCEPT !.wake_in = Max(@ - d, 0)]]
    /\ UNCHANGED <<non_limiter_vars, lock>>

\* line 39: coroutine c calls acquire() and reaches `async with self.lock`
Acquire(c) ==
    /\ pc = "component"
    /\ callers[c].pc = "idle"
    /\ callers' = [callers EXCEPT ![c] = [Idle EXCEPT !.pc = "waiting"]]
    /\ UNCHANGED <<non_limiter_vars, requests, lock, window>>

\* lines 41-54: coroutine c gets the lock and runs acquire() up to its
\* return or up to the sleep, which it enters holding the lock; the
\* recursive call of line 52 starts here as well
EnterLock(c) ==
    /\ pc = "component"
    /\ callers[c].pc \in {"waiting", "reentering"}
    /\ lock = "free"
    /\ LET kept == recent(requests)
       IN  IF window_full(kept) /\ wait_time(kept) > 0
           THEN /\ requests' = kept
                /\ lock' = c
                /\ callers' = [callers EXCEPT ![c] =
                        [Idle EXCEPT !.pc = "sleeping",
                                     !.wake_in = wait_time(kept)]]
                /\ UNCHANGED window
           ELSE /\ requests' = Append(kept, 0)
                /\ window' = Append(window, 0)
                /\ lock' = "free"
                /\ callers' = [callers EXCEPT ![c] = Idle]
    /\ UNCHANGED non_limiter_vars

\* lines 51-52: the sleep is over and coroutine c calls acquire() again,
\* from inside the `async with` block that holds the lock
WakeUp(c) ==
    /\ pc = "component"
    /\ callers[c].pc = "sleeping"
    /\ callers[c].wake_in = 0
    /\ callers' = [callers EXCEPT ![c] = [@ EXCEPT !.pc = "reentering"]]
    /\ UNCHANGED <<non_limiter_vars, requests, lock, window>>

NextLimiter ==
    \/ \E d \in LimiterTicks : LimiterTick(d)
    \/ \E c \in Coroutines : Acquire(c)
    \/ \E c \in Coroutines : EnterLock(c)
    \/ \E c \in Coroutines : WakeUp(c)

SpecLimiter == InitLimiter /\ [][NextLimiter]_vars

\* time advances, and the event loop runs every coroutine that can run
SpecLimiterLive ==
    /\ SpecLimiter
    /\ WF_vars(\E d \in LimiterTicks : LimiterTick(d))
    /\ \A c \in Coroutines : WF_vars(EnterLock(c)) /\ WF_vars(WakeUp(c))

\* C17: at no time do the last 60 seconds hold more than
\* requests_per_minute timestamps recorded by acquire().
C17_WindowNeverOverfull == Len(window) <= requests_per_minute

C17_Witness ==
    /\ Len(window) = requests_per_minute
    /\ \E c \in Coroutines : callers[c].pc = "sleeping"
    /\ \E c \in Coroutines : callers[c].pc = "waiting"

\* C18 (as claimed): every acquire() call eventually returns, also one that
\* found the window full and one that waited behind it.
C18_AcquireReturns ==
    \A c \in Coroutines :
        (callers[c].pc = "waiting") ~> (callers[c].pc = "idle")

(* ---------------------------------------------------------------------- *)
(* CostTracker over UTC day boundaries                                     *)
(* ---------------------------------------------------------------------- *)
\* amounts passed to add_cost, and estimates passed to check_cost_limit
CostChoices == {30 * UnitsPerDollar, 50 * UnitsPerDollar}
EstimateChoices ==
    {estimate_cost("openai/gpt-4o", "crm"), 2 * MAX_COST_PER_REQUEST}

non_tracker_vars == <<config_vars, storage_vars, pc, loop_vars, totals_vars,
                      circuit_breaker, admitted, call_vars, ghost_vars,
                      db_faults, response, accepted, since_failure, callers,
                      requests, lock, window, consecutive_failures,
                      service_vars>>

InitTracker == PipelineIdle /\ UnitIdle

TrackerFields == [daily_cost |-> daily_cost, day_rolled |-> day_rolled]

\* datetime.utcnow().date() moves to the next day
Midnight ==
    /\ pc = "component"
    /\ day_rolled' = TRUE
    /\ added_today' = 0
    /\ UNCHANGED <<non_tracker_vars, daily_cost, observed>>

\* lines 67-84
CheckCostLimit(estimated_cost) ==
    /\ pc = "component"
    /\ daily_cost' = reset_if_new_day(daily_cost, day_rolled)
    /\ day_rolled' = FALSE
    /\ observed' =
            [op |-> "check_cost_limit",
             before |-> TrackerFields,
             after |-> [daily_cost |-> reset_if_new_day(daily_cost, day_rolled),
                        day_rolled |-> FALSE],
             estimated_cost |-> estimated_cost,
             answer |-> check_cost_limit(
                            reset_if_new_day(daily_cost, day_rolled),
                            MAX_COST_PER_REQUEST, estimated_cost)]
    /\ UNCHANGED <<non_tracker_vars, added_today>>

\* lines 86-89; the model stops adding at the daily ceiling
AddCost(actual_cost) ==
    /\ pc = "component"
    /\ daily_cost <= max_daily_cost - actual_cost
    /\ added_today <= max_daily_cost - actual_cost
    /\ daily_cost' = add_cost(daily_cost, actual_cost)
    /\ added_today' = added_today + actual_cost
    /\ observed' = [op |-> "add_cost",
                    before |-> TrackerFields,
                    after |-> [daily_cost |-> add_cost(daily_cost, actual_cost),
                               day_rolled |-> day_rolled]]
    /\ UNCHANGED <<non_tracker_vars, day_rolled>>

NextTracker ==
    \/ Midnight
    \/ \E estimated_cost \in EstimateChoices : CheckCostLimit(estimated_cost)
    \/ \E actual_cost \in CostChoices : AddCost(actual_cost)

SpecTracker == InitTracker /\ [][NextTracker]_vars

\* C19 (as claimed): check_cost_limit leaves the day total and the reset
\* date as they were, also in the first call after a day rollover, and
\* answers false exactly when the estimate is above the per-call ceiling or
\* day total plus estimate is above the daily ceiling.
C19_CheckIsPureRead ==
    observed.op = "check_cost_limit" =>
        /\ observed.after = observed.before
        /\ ~observed.answer <=>
                \/ observed.estimated_cost > MAX_COST_PER_REQUEST
                \/ observed.after.daily_cost + observed.estimated_cost
                        > max_daily_cost

\* C20 (as claimed): the day total the next check works with is the sum of
\* the amounts passed to add_cost on the current UTC day.
C20_DayTotalIsTodaysSum ==
    reset_if_new_day(daily_cost, day_rolled) = added_today

(* ---------------------------------------------------------------------- *)
(* The daily ceiling over the calls of one executor                        *)
(* ---------------------------------------------------------------------- *)
\* C30: within one UTC day, when every add_cost follows a check_cost_limit
\* that returned true, the tracker's cumulative day cost never exceeds the
\* daily ceiling, also when the actual cost of a call differs from its
\* estimate.
C30_DayCostWithinCeiling == daily_cost <= max_daily_cost

(* ---------------------------------------------------------------------- *)
(* Runs in flight together in one worker process                           *)
(* ---------------------------------------------------------------------- *)
\* execute() calls one run makes (the pairs of its matrix)
MaxCallsPerRun == 2
\* the step in which time passes
RunTick == WindowSeconds
\* what the provider answers to one attempt
RunOutcomes ==
    { Outcome("network_error", Content("empty", JNull), NoUsage),
      Outcome("ok", Content("json", ResponseOk), UsageNormal) }

\* ModelExecutor(api_key, tenant_config): a RateLimiter, a CostTracker and
\* a CircuitBreaker of its own; calls counts the execute() calls of the run
ModelExecutor ==
    [pc |-> "idle", calls |-> 0, attempt |-> 0, requests |-> <<>>,
     daily_cost |-> 0, circuit_breaker |-> NewCircuitBreaker,
     since_failure |-> 0]

InFlight == {r \in RunPool : executors[r] \notin {NoExecutor, ExecutorDropped}}

non_run_vars == <<pipeline_vars, response, accepted, since_failure, callers,
                  requests, lock, day_rolled, added_today,
                  consecutive_failures, observed, arguments, return_value,
                  worker_vars>>

InitRuns == PipelineIdle /\ UnitIdle

\* execute_task_run reaches line 512 in run r, started by a cron job or by
\* the queue consumer while the other run is suspended at an await
BuildExecutor(r) ==
    /\ pc = "component"
    /\ executors[r] = NoExecutor
    /\ executors' = [executors EXCEPT ![r] = ModelExecutor]
    /\ UNCHANGED <<non_run_vars, window>>

\* lines 189-205 of execute() in run r
RunExecuteBegin(r) ==
    /\ pc = "component"
    /\ r \in InFlight
    /\ executors[r].pc = "idle"
    /\ executors[r].calls < MaxCallsPerRun
    /\ LET e == executors[r]
           cost_ok == check_cost_limit(e.daily_cost, MAX_COST_PER_REQUEST,
                                       estimate_cost("openai/gpt-4o", "crm"))
           answer == can_execute(e.circuit_breaker, e.since_failure)
       IN  executors' = [executors EXCEPT ![r] =
                IF ~cost_ok
                THEN [e EXCEPT !.calls = @ + 1]
                ELSE [e EXCEPT !.calls = @ + 1,
                               !.circuit_breaker = answer.cb,
                               !.attempt = 0,
                               !.pc = IF answer.allowed THEN "attempting"
                                      ELSE "idle"]]
    /\ UNCHANGED <<non_run_vars, window>>

\* lines 207-258: one pass of the retry loop in run r; an acquire() that
\* finds its window full sleeps and then waits for the lock it holds
RunAttempt(r, outcome) ==
    /\ pc = "component"
    /\ r \in InFlight
    /\ executors[r].pc = "attempting"
    /\ LET e == executors[r]
           kept == recent(e.requests)
           failed == attempt_error(outcome) # ""
           last == e.attempt = RATE_LIMIT_MAX_RETRIES - 1
       IN  IF window_full(kept) /\ wait_time(kept) > 0
           THEN /\ executors' = [executors EXCEPT ![r] =
                        [e EXCEPT !.requests = kept, !.pc = "blocked"]]
                /\ UNCHANGED window
           ELSE /\ window' = Append(window, 0)
                /\ executors' = [executors EXCEPT ![r] =
                     IF failed
                     THEN [e EXCEPT
                            !.requests = Append(kept, 0),
                            !.circuit_breaker = record_failure(@),
                            !.since_failure = 0,
                            !.attempt = IF last THEN 0 ELSE @ + 1,
                            !.pc = IF last THEN "idle" ELSE "attempting"]
                     ELSE [e EXCEPT
                            !.requests = Append(kept, 0),
                            !.daily_cost = add_cost(@,
                                calculate_cost("openai/gpt-4o", outcome.usage)),
                            !.circuit_breaker = record_success(@),
                            !.attempt = 0,
                            !.pc = "idle"]]
    /\ UNCHANGED non_run_vars

\* time passes in the worker process
RunsTick ==
    /\ pc = "component"
    /\ InFlight # {}
    /\ window' = recent([i \in 1..Len(window) |->
                        Min(window[i] + RunTick, WindowSeconds)])
    /\ executors' = [r \in RunPool |->
            IF r \notin InFlight THEN executors[r]
            ELSE [executors[r] EXCEPT
                    !.requests = [i \in 1..Len(@) |->
                                    Min(@[i] + RunTick, WindowSeconds)],
                    !.since_failure =
                        IF executors[r].circuit_breaker.has_last_failure
                        THEN Min(@ + RunTick, recovery_timeout) ELSE @]]
    /\ UNCHANGED non_run_vars

\* execute_task_run returns in run r: its executor is dropped
RunReturns(r) ==
    /\ pc = "component"
    /\ r \in InFlight
    /\ executors[r].pc = "idle"
    /\ executors[r].calls = MaxCallsPerRun
    /\ executors' = [executors EXCEPT ![r] = ExecutorDropped]
    /\ UNCHANGED <<non_run_vars, window>>

NextRuns ==
    \/ \E r \in RunPool : BuildExecutor(r)
    \/ \E r \in RunPool : RunExecuteBegin(r)
    \/ \E r \in RunPool, outcome \in RunOutcomes : RunAttempt(r, outcome)
    \/ RunsTick
    \/ \E r \in RunPool : RunReturns(r)

SpecRuns == InitRuns /\ [][NextRuns]_vars

\* C21: the provider calls of the runs in flight together go through the
\* same RateLimiter, CostTracker and CircuitBreaker state: at most
\* requests_per_minute calls are admitted per trailing minute across all
\* runs, and the failures and costs one run recorded are in the breaker
\* and the day total the other run checks.
C21_RunsShareComponents ==
    /\ Len(window) <= requests_per_minute
    /\ \A r1, r2 \in InFlight :
          /\ executors[r1].circuit_breaker = executors[r2].circuit_breaker
          /\ executors[r1].daily_cost = executors[r2].daily_cost

(* ---------------------------------------------------------------------- *)
(* Calculator functions                                                    *)
(* ---------------------------------------------------------------------- *)
\* A str is the sequence of its characters.
\* str.lower(), for the upper-case letters the inputs below are made of
LowerChar(c) ==
    CASE c = "A" -> "a" [] c = "I" -> "i" [] c = "B" -> "b" [] OTHER -> c
lower(str) == [i \in 1..Len(str) |-> LowerChar(str[i])]

\* needle in haystack
Contains(haystack, needle) ==
    \E i \in 0..(Len(haystack) - Len(needle)) :
        SubSeq(haystack, i + 1, i + Len(needle)) = needle

\* " ".join(words)
RECURSIVE join(_)
join(words) ==
    IF words = <<>> THEN <<>>
    ELSE IF Len(words) = 1 THEN words[1]
    ELSE words[1] \o <<" ">> \o join(Tail(words))

\* the sequences over pool of length at most n
SeqsUpTo(pool, n) == UNION {[1..k -> pool] : k \in 0..n}

\* set(items), len(set(items))
ToSet(items) == {items[i] : i \in 1..Len(items)}

\* scores and percentages are kept in hundredths (round(x, 2))
PercentScale == 100

\* round(num / den * 100, 2) in hundredths; no quotient of the inputs
\* below lies on a tie
round_percent(num, den) ==
    (2 * num * 100 * PercentScale + den) \div (2 * den)

\* an Optional[str] argument
NoneStr == [given |-> FALSE, str |-> <<>>]
SomeStr(str) == [given |-> TRUE, str |-> str]

\* lines 25-36
calculate_sov(brand_mentions, total_models, target_brand) ==
    IF brand_mentions = <<>> THEN 0
    ELSE IF target_brand.given /\ target_brand.str # <<>>
    THEN LET target_mentions ==
                Cardinality({i \in 1..Len(brand_mentions) :
                    lower(brand_mentions[i]) = lower(target_brand.str)})
         IN  round_percent(target_mentions, Len(brand_mentions))
    ELSE LET unique_brands == Cardinality(ToSet(brand_mentions))
         IN  round_percent(unique_brands, Max(total_models, 1))

\* a get_grade whose top cutoff is exclusive
get_grade_ExclusiveTop(score) ==
    IF score > 90 * PercentScale THEN "A+"
    ELSE IF score >= 85 * PercentScale THEN "A"
    ELSE IF score >= 80 * PercentScale THEN "B+"
    ELSE IF score >= 75 * PercentScale THEN "B"
    ELSE IF score >= 70 * PercentScale THEN "C+"
    ELSE IF score >= 65 * PercentScale THEN "C"
    ELSE IF score >= 50 * PercentScale THEN "D"
    ELSE "F"

\* lines 292-307
get_grade(score) ==
    IF score >= 90 * PercentScale THEN "A+"
    ELSE IF score >= 85 * PercentScale THEN "A"
    ELSE IF score >= 80 * PercentScale THEN "B+"
    ELSE IF score >= 75 * PercentScale THEN "B"
    ELSE IF score >= 70 * PercentScale THEN "C+"
    ELSE IF score >= 65 * PercentScale THEN "C"
    ELSE IF score >= 50 * PercentScale THEN "D"
    ELSE "F"

\* lines 196-212; tokens is response.split(), brand_tokens is
\* brand.lower().split()
check_positioning_hit(tokens, brand_tokens, positioning_keywords, window_size) ==
    \E i \in 1..Len(tokens) :
        /\ \E b \in 1..Len(brand_tokens) :
              Contains(lower(tokens[i]), lower(brand_tokens[b]))
        /\ LET start == Max(0, (i - 1) - window_size)
               end == Min(Len(tokens), (i - 1) + window_size + 1)
               window_text == lower(join(SubSeq(tokens, start + 1, end)))
           IN  \E k \in 1..Len(positioning_keywords) :
                  Contains(window_text, lower(positioning_keywords[k]))

\* --- the inputs
MaxMentions == 3
MaxTokens == 3
BrandNames == {<<"A", "I">>, <<"a", "i">>, <<"B", "i", "b">>}
TotalModelsChoices == {0, 1, 2, 5}
TargetChoices ==
    {NoneStr, SomeStr(<<>>), SomeStr(<<"a", "i">>), SomeStr(<<"A", "I">>),
     SomeStr(<<"z">>)}
SovArguments ==
    [fn : {"calculate_sov"},
     brand_mentions : SeqsUpTo(BrandNames, MaxMentions),
     total_models : TotalModelsChoices,
     target_brand : TargetChoices]

\* scores around every cutoff, below 0 and above 100, in hundredths
GradeCutoffs == {50, 65, 70, 75, 80, 85, 90}
GradeScores ==
    {c * PercentScale + k : c \in GradeCutoffs \cup {0, 100}, k \in {-1, 0, 50}}
        \cup {-10 * PercentScale, 110 * PercentScale}
GradeArguments == [fn : {"get_grade"}, score : GradeScores]

Words == {<<"A", "I">>, <<"s", "a", "i", "d">>, <<"f", "a", "s", "t">>,
          <<"i", "t">>}
BrandChoices == {<<>>, <<<<"a", "i">>>>, <<<<"B", "i", "b">>, <<"A", "I">>>>}
KeywordChoices ==
    {<<>>, <<<<"F", "a", "s", "t">>>>,
     <<<<"s", "l", "o", "w">>, <<"i", "t", " ", "f", "a", "s", "t">>>>}
WindowSizeChoices == {0, 1, 50}
PositioningArguments ==
    [fn : {"check_positioning_hit"},
     response : SeqsUpTo(Words, MaxTokens),
     brand : BrandChoices,
     positioning_keywords : KeywordChoices,
     window_size : WindowSizeChoices]

non_calculator_vars == <<pipeline_vars, response, accepted, since_failure,
                         callers, requests, lock, window, day_rolled,
                         added_today, consecutive_failures, executors,
                         worker_vars>>

\* a caller about to call one of the functions
InitCalculator ==
    /\ PipelineIdle
    /\ response = JNull
    /\ ComponentsIdle
    /\ RunsIdle
    /\ WorkerIdle
    /\ arguments \in SovArguments \cup GradeArguments \cup PositioningArguments
    /\ return_value = NoCall

Pending(fn) == arguments.fn = fn /\ return_value = NoCall
Called(fn) == arguments.fn = fn /\ return_value # NoCall

CalculateSov ==
    /\ pc = "component"
    /\ Pending("calculate_sov")
    /\ return_value' = [value |-> calculate_sov(arguments.brand_mentions,
                            arguments.total_models, arguments.target_brand)]
    /\ UNCHANGED <<non_calculator_vars, arguments, observed>>

GetGrade ==
    /\ pc = "component"
    /\ Pending("get_grade")
    /\ return_value' = [value |-> get_grade(arguments.score)]
    /\ UNCHANGED <<non_calculator_vars, arguments, observed>>

\* the caller grades a second score
GetGradeAgain(a) ==
    /\ pc = "component"
    /\ Called("get_grade")
    /\ observed = NoCall
    /\ arguments' = a
    /\ return_value' = [value |-> get_grade(a.score)]
    /\ observed' = [op |-> "get_grade", arguments |-> arguments,
                    return_value |-> return_value]
    /\ UNCHANGED non_calculator_vars

CheckPositioningHit ==
    /\ pc = "component"
    /\ Pending("check_positioning_hit")
    /\ return_value' =
            [value |-> Returned(check_positioning_hit(arguments.response,
                            arguments.brand, arguments.positioning_keywords,
                            arguments.window_size))]
    /\ UNCHANGED <<non_calculator_vars, arguments, observed>>

NextCalculator ==
    \/ CalculateSov
    \/ GetGrade
    \/ \E a \in GradeArguments : GetGradeAgain(a)
    \/ CheckPositioningHit

SpecCalculator == InitCalculator /\ [][NextCalculator]_vars

\* C27: calculate_sov returns a value in [0, 100] for every mention list,
\* every total_models and every target brand, present or absent, and
\* exactly 0 for an empty mention list.
C27_SovWithinRange ==
    Called("calculate_sov") =>
        /\ return_value.value >= 0
        /\ return_value.value <= 100 * PercentScale
        /\ arguments.brand_mentions = <<>> => return_value.value = 0

\* the order F < D < C < C+ < B < B+ < A < A+
GradeRank(grade) ==
    CASE grade = "F" -> 0 [] grade = "D" -> 1 [] grade = "C" -> 2
      [] grade = "C+" -> 3 [] grade = "B" -> 4 [] grade = "B+" -> 5
      [] grade = "A" -> 6 [] grade = "A+" -> 7

\* the grade the claim gives each cutoff
CutoffGrade(c) ==
    CASE c = 90 -> "A+" [] c = 85 -> "A" [] c = 80 -> "B+" [] c = 75 -> "B"
      [] c = 70 -> "C+" [] c = 65 -> "C" [] c = 50 -> "D"

\* C28: get_grade maps every score to the grade of the highest cutoff it
\* reaches (>=90 A+, >=85 A, >=80 B+, >=75 B, >=70 C+, >=65 C, >=50 D,
\* else F), negative scores to F and scores above 100 to A+, and of two
\* calls the one with the higher score never gets the lower grade.
C28_GradeOfHighestCutoff ==
    Called("get_grade") =>
        LET score == arguments.score
            reached == {c \in GradeCutoffs : score >= c * PercentScale}
        IN  /\ reached = {} => return_value.value = "F"
            /\ reached # {} =>
                  \E c \in reached :
                      /\ \A other \in reached : other <= c
                      /\ return_value.value = CutoffGrade(c)
            /\ score < 0 => return_value.value = "F"
            /\ score > 100 * PercentScale => return_value.value = "A+"
            /\ observed # NoCall /\ observed.arguments.score <= score =>
                  GradeRank(observed.return_value.value)
                      <= GradeRank(return_value.value)

\* a call at a cutoff after a call just below it
C28_Witness ==
    /\ Called("get_grade")
    /\ arguments.score = 90 * PercentScale
    /\ observed # NoCall
    /\ observed.arguments.score = 90 * PercentScale - 1
    /\ return_value.value = "A+"

\* the hit as the claim defines it: some token of the response equals a
\* token of the brand name, and some keyword occurs in the text of the
\* window_size tokens on either side of it, all in lower case
PositioningHitAsClaimed(a) ==
    \E i \in 1..Len(a.response) :
        /\ \E b \in 1..Len(a.brand) :
              lower(a.response[i]) = lower(a.brand[b])
        /\ \E k \in 1..Len(a.positioning_keywords) :
              Contains(
                lower(join(SubSeq(a.response,
                                  Max(1, i - a.window_size),
                                  Min(Len(a.response), i + a.window_size)))),
                lower(a.positioning_keywords[k]))

\* C29: check_positioning_hit returns true if and only if some positioning
\* keyword occurs within window_size tokens of a token of the response
\* that is a brand-name token, compared case-insensitively; it returns
\* false for an empty response and for an empty keyword list.
C29_HitIffKeywordNearBrandToken ==
    Called("check_positioning_hit") =>
        /\ return_value.value = Returned(PositioningHitAsClaimed(arguments))
        /\ arguments.response = <<>> => return_value.value = "False"
        /\ arguments.positioning_keywords = <<>> =>
              return_value.value = "False"

(* ---------------------------------------------------------------------- *)
(* The worker: startup, job table, the two loops, shutdown                 *)
(* ---------------------------------------------------------------------- *)
\* A cron expression is the sequence of its fields (expr.split()).
Daily == <<"0", "0", "*", "*", "*">>
EverySecond == <<"*", "*", "*", "*", "*", "*">>
NoFields == <<>>
CronChoices == {Daily, EverySecond, NoFields}

\* the MonitorTask rows the task API can leave in storage: schedule_cron
\* is a non-null string
TaskRow(is_active, schedule_cron) ==
    [row |-> "task", is_active |-> is_active, schedule_cron |-> schedule_cron]
TaskRows == {TaskRow(a, e) : a \in BOOLEAN, e \in CronChoices}

\* CronTrigger.from_crontab(expr) raises ValueError unless expr has five
\* fields (line 99)
from_crontab_raises(expr) == Len(expr) # 5

\* lines 83-89: the rows the select returns
select_scheduled(rows) ==
    {t \in TaskIds : rows[t] # NoRow /\ rows[t].is_active}

\* a sync that leaves the jobs it finds in the table
sync_jobs_KeepsJobs(jobs, rows) ==
    jobs \cup {[id |-> t, trigger |-> rows[t].schedule_cron] :
            t \in {u \in select_scheduled(rows) :
                        ~from_crontab_raises(rows[u].schedule_cron)}}

\* lines 91-119: the job table after the jobs found are removed and one
\* job is added for each row whose expression parses
sync_jobs(jobs, rows) ==
    {[id |-> t, trigger |-> rows[t].schedule_cron] :
        t \in {u \in select_scheduled(rows) :
                    ~from_crontab_raises(rows[u].schedule_cron)}}

\* what a completed sync_scheduled_tasks leaves behind; by is the caller
SyncRecord(by) ==
    [op |-> "sync_scheduled_tasks", by |-> by, read |-> monitor_tasks,
     jobs |-> sync_jobs(scheduler.jobs, monitor_tasks)]

\* lines 77-121 as a change of the job table and of the record of the
\* last completed sync; db_error: the select raises
sync_scheduled_tasks(by, db_error) ==
    IF db_error
    THEN UNCHANGED scheduler /\ history' = history
    ELSE /\ scheduler' = [scheduler EXCEPT
                            !.jobs = sync_jobs(@, monitor_tasks)]
         /\ history' = [history EXCEPT !.last_sync = SyncRecord(by)]

non_worker_vars == <<pipeline_vars, response, accepted, since_failure,
                     callers, requests, lock, window, day_rolled,
                     added_today, consecutive_failures, observed, executors,
                     arguments, return_value>>

\* the task API of another process creates, updates, deactivates or
\* deletes the row of task t
StoreTask(t, row) ==
    /\ pc = "component"
    /\ monitor_tasks[t] # row
    /\ monitor_tasks' = [monitor_tasks EXCEPT ![t] = row]
    /\ UNCHANGED <<non_worker_vars, scheduler, worker, coroutines, task_runs,
                   task_queue, scheduling, history>>

\* main() calls start(): line 195, then initialize() waits for
\* init_async_db()
Start ==
    /\ pc = "component"
    /\ coroutines.main = "start"
    /\ worker' = [worker EXCEPT !.running = TRUE]
    /\ coroutines' = [coroutines EXCEPT !.main = "init_db"]
    /\ UNCHANGED <<non_worker_vars, monitor_tasks, scheduler, task_runs,
                   task_queue, scheduling, history>>

\* lines 50-75, up to the select of the first sync. get_redis is an async
\* function called without await: redis_client is a coroutine object,
\* its .ping() raises AttributeError, and the handler sets the client to
\* None. db_error: init_async_db raises and initialize re-raises.
InitializeResources(db_error) ==
    /\ pc = "component"
    /\ coroutines.main = "init_db"
    /\ IF db_error
       THEN /\ coroutines' = [coroutines EXCEPT !.main = "finally"]
            /\ UNCHANGED <<worker, scheduler>>
       ELSE /\ worker' = [worker EXCEPT !.redis_client = "None"]
            /\ scheduler' = [scheduler EXCEPT !.running = TRUE]
            /\ coroutines' = [coroutines EXCEPT !.main = "first_sync"]
    /\ UNCHANGED <<non_worker_vars, monitor_tasks, task_runs, task_queue,
                   scheduling, history>>

\* line 75 and lines 201-209: the first sync, then the two loops are
\* created and start() waits for them
FirstSync(db_error) ==
    /\ pc = "component"
    /\ coroutines.main = "first_sync"
    /\ sync_scheduled_tasks("initialize", db_error)
    /\ IF db_error
       THEN /\ coroutines' = [coroutines EXCEPT !.main = "finally"]
            /\ UNCHANGED worker
       ELSE /\ worker' = [worker EXCEPT !.queue_consumer_task = "Task",
                                        !.sync_task = "Task"]
            /\ coroutines' = [coroutines EXCEPT !.main = "gather",
                                                !.consumer = "loop",
                                                !.resync = "loop"]
    /\ UNCHANGED <<non_worker_vars, monitor_tasks, task_runs, task_queue,
                   scheduling>>

Cancelled(loop) == loop \in coroutines.cancelled

\* line 184 and line 186: the loop test, then the sleep of 60 seconds
ResyncEnter ==
    /\ pc = "component"
    /\ coroutines.resync = "loop"
    /\ ~Cancelled("resync")
    /\ coroutines' = [coroutines EXCEPT
            !.resync = IF worker.running THEN "sleeping" ELSE "done"]
    /\ UNCHANGED <<non_worker_vars, monitor_tasks, scheduler, worker,
                   task_runs, task_queue, scheduling, history>>

\* lines 187-190: the sleep is over and the sync runs; its exception is
\* logged
ResyncSync(db_error) ==
    /\ pc = "component"
    /\ coroutines.resync = "sleeping"
    /\ ~Cancelled("resync")
    /\ sync_scheduled_tasks("periodic_sync", db_error)
    /\ coroutines' = [coroutines EXCEPT !.resync = "loop"]
    /\ UNCHANGED <<non_worker_vars, monitor_tasks, worker, task_runs,
                   task_queue, scheduling>>

InitSync == PipelineIdle /\ UnitIdle

NextSync ==
    \/ \E t \in TaskIds, row \in TaskRows \cup {NoRow} : StoreTask(t, row)
    \/ Start
    \/ \E db_error \in BOOLEAN : InitializeResources(db_error)
    \/ \E db_error \in BOOLEAN : FirstSync(db_error)
    \/ ResyncEnter
    \/ \E db_error \in BOOLEAN : ResyncSync(db_error)

SpecSync == InitSync /\ [][NextSync]_vars

\* the jobs of the last completed sync that are keyed by task t
JobsOf(t) == {j \in history.last_sync.jobs : j.id = t}
ReadRow(t) == history.last_sync.read[t]

\* C22 (as claimed): after every completed sync_scheduled_tasks the job
\* table holds exactly one cron job, keyed by task id, for each task that
\* was active with a cron expression in storage at the time of the read,
\* and no job for any other task.
C22_JobPerScheduledTask ==
    history.last_sync # NoCall =>
        \A t \in TaskIds :
            Cardinality(JobsOf(t)) =
                IF ReadRow(t) # NoRow /\ ReadRow(t).is_active THEN 1 ELSE 0

\* C22 (amended): after every completed sync_scheduled_tasks, at startup
\* and at each periodic resync, the job table holds exactly one cron job,
\* keyed by task id and built from the stored expression, for each task
\* that was active at the time of the read with an expression
\* CronTrigger.from_crontab accepts, and no job for any other task; the
\* resync loop is still running after a resync that raised.
C22_JobPerParsableTask ==
    /\ history.last_sync # NoCall =>
          /\ scheduler.jobs = history.last_sync.jobs
          /\ \A t \in TaskIds :
                IF /\ ReadRow(t) # NoRow
                   /\ ReadRow(t).is_active
                   /\ ~from_crontab_raises(ReadRow(t).schedule_cron)
                THEN JobsOf(t) =
                        {[id |-> t, trigger |-> ReadRow(t).schedule_cron]}
                ELSE JobsOf(t) = {}
    /\ coroutines.main = "gather" => coroutines.resync \in {"loop", "sleeping"}

\* a periodic resync that read one task whose expression parses, after
\* its row was changed, and one active task whose expression does not
C22_Witness ==
    /\ history.last_sync # NoCall
    /\ history.last_sync.by = "periodic_sync"
    /\ ReadRow("t1") = TaskRow(TRUE, Daily)
    /\ ReadRow("t2") = TaskRow(TRUE, EverySecond)
    /\ scheduler.jobs = {[id |-> "t1", trigger |-> Daily]}

(* ---------------------------------------------------------------------- *)
(* The worker with its queue consumer, cron runs and shutdown              *)
(* ---------------------------------------------------------------------- *)
\* line 155: the sleep of a pass that has no Redis client
NoClientSleep == 5

\* one active task with a daily schedule in storage
InitWorker ==
    /\ PipelineIdle
    /\ response = JNull
    /\ ComponentsIdle
    /\ RunsIdle
    /\ CalculatorIdle
    /\ WorkerConstructed
    /\ monitor_tasks = [t \in TaskIds |->
                          IF t = "t1" THEN TaskRow(TRUE, Daily) ELSE NoRow]

\* the asyncio event loop of the worker process is running
LoopRunning == coroutines.main # "done"

\* TaskRun(...): uuid4 gives an id no row and no call holds
UsedRunIds == task_runs \cup {scheduling[c].run_id : c \in ApiCalls}
FreshRunIds == RunIds \ UsedRunIds
FreshRunId == CHOOSE id \in FreshRunIds : \A other \in FreshRunIds : id <= other

\* lines 151-178: one pass of the consumer loop, up to its sleep or to
\* the end of the pass
ConsumerPass ==
    /\ pc = "component"
    /\ LoopRunning
    /\ coroutines.consumer = "loop"
    /\ ~Cancelled("consumer")
    /\ IF ~worker.running
       THEN /\ coroutines' = [coroutines EXCEPT !.consumer = "done"]
            /\ UNCHANGED <<history, task_queue>>
       ELSE IF worker.redis_client = "None"
       THEN /\ coroutines' = [coroutines EXCEPT !.consumer = "sleeping",
                                                !.wait = NoClientSleep]
            /\ history' = [history EXCEPT !.last_pass = "slept"]
            /\ UNCHANGED task_queue
       ELSE /\ UNCHANGED coroutines
            /\ IF task_queue = <<>>
               THEN /\ history' = [history EXCEPT !.last_pass = "polled"]
                    /\ UNCHANGED task_queue
               ELSE /\ task_queue' = SubSeq(task_queue, 1, Len(task_queue) - 1)
                    /\ history' = [history EXCEPT
                            !.last_pass = "polled",
                            !.invocations[task_queue[Len(task_queue)]] = @ + 1]
    /\ UNCHANGED <<non_worker_vars, monitor_tasks, scheduler, worker,
                   task_runs, scheduling>>

\* the sleep of the consumer is over
ConsumerWake ==
    /\ pc = "component"
    /\ LoopRunning
    /\ coroutines.consumer = "sleeping"
    /\ ~Cancelled("consumer")
    /\ coroutines' = [coroutines EXCEPT !.consumer = "loop", !.wait = 0]
    /\ UNCHANGED <<non_worker_vars, monitor_tasks, scheduler, worker,
                   task_runs, task_queue, scheduling, history>>

\* Task.cancel() of lines 227 and 234 reaches the loop at its await (or
\* before its first step): CancelledError is not an Exception, so no
\* handler of the loop catches it
LoopCancelled(loop) ==
    /\ pc = "component"
    /\ LoopRunning
    /\ Cancelled(loop)
    /\ coroutines[loop] \in {"loop", "sleeping"}
    /\ coroutines' = [coroutines EXCEPT ![loop] = "done", !.wait =
                        IF loop = "consumer" THEN 0 ELSE @]
    /\ UNCHANGED <<non_worker_vars, monitor_tasks, scheduler, worker,
                   task_runs, task_queue, scheduling, history>>

Returned_shutdowns == {c \in ShutdownCalls : coroutines.shutdown[c] = "returned"}

\* lines 123-142: a job of the table fires and execute_scheduled_task
\* creates a run and executes it
CronFire(t) ==
    /\ pc = "component"
    /\ LoopRunning
    /\ scheduler.running
    /\ \E j \in scheduler.jobs : j.id = t
    /\ FreshRunIds # {}
    /\ task_runs' = task_runs \cup {FreshRunId}
    /\ history' = [history EXCEPT !.late_runs =
                        IF Returned_shutdowns # {} THEN @ + 1 ELSE @]
    /\ UNCHANGED <<non_worker_vars, monitor_tasks, scheduler, worker,
                   coroutines, task_queue, scheduling>>

\* lines 262-266: SIGINT or SIGTERM arrives and the handler creates a task
\* that runs shutdown()
Signal ==
    /\ pc = "component"
    /\ LoopRunning
    /\ coroutines.shutdown["signal"] = "none"
    /\ coroutines' = [coroutines EXCEPT !.shutdown["signal"] = "called"]
    /\ UNCHANGED <<non_worker_vars, monitor_tasks, scheduler, worker,
                   task_runs, task_queue, scheduling, history>>

\* the loops a cancel() of this moment reaches
Cancel(loop) ==
    IF coroutines[loop] = "done" THEN coroutines.cancelled
    ELSE coroutines.cancelled \cup {loop}

\* lines 218-229: shutdown() up to its first await; the task of the
\* signal handler first runs when main() is suspended, at the earliest
\* in init_async_db()
ShutdownBegin(c) ==
    /\ pc = "component"
    /\ LoopRunning
    /\ coroutines.shutdown[c] = "called"
    /\ coroutines.main # "start"
    /\ worker' = [worker EXCEPT !.running = FALSE]
    /\ scheduler' = [scheduler EXCEPT !.running = FALSE]
    /\ coroutines' =
            IF worker.queue_consumer_task # "None"
            THEN [coroutines EXCEPT !.shutdown[c] = "await_consumer",
                                    !.cancelled = Cancel("consumer")]
            ELSE [coroutines EXCEPT !.shutdown[c] = "close_db"]
    /\ UNCHANGED <<non_worker_vars, monitor_tasks, task_runs, task_queue,
                   scheduling, history>>

\* lines 229-236: the consumer task is done; the resync task is cancelled
ShutdownAfterConsumer(c) ==
    /\ pc = "component"
    /\ LoopRunning
    /\ coroutines.shutdown[c] = "await_consumer"
    /\ coroutines.consumer = "done"
    /\ coroutines' = [coroutines EXCEPT !.shutdown[c] = "await_sync",
                                        !.cancelled = Cancel("resync")]
    /\ UNCHANGED <<non_worker_vars, monitor_tasks, scheduler, worker,
                   task_runs, task_queue, scheduling, history>>

\* lines 236-250: the resync task is done; there is no Redis client to
\* close; close_async_db() is awaited
ShutdownAfterSync(c) ==
    /\ pc = "component"
    /\ LoopRunning
    /\ coroutines.shutdown[c] = "await_sync"
    /\ coroutines.resync = "done"
    /\ coroutines' = [coroutines EXCEPT !.shutdown[c] = "close_db"]
    /\ UNCHANGED <<non_worker_vars, monitor_tasks, scheduler, worker,
                   task_runs, task_queue, scheduling, history>>

\* lines 250-255
ShutdownReturn(c) ==
    /\ pc = "component"
    /\ LoopRunning
    /\ coroutines.shutdown[c] = "close_db"
    /\ coroutines' = [coroutines EXCEPT !.shutdown[c] = "returned"]
    /\ UNCHANGED <<non_worker_vars, monitor_tasks, scheduler, worker,
                   task_runs, task_queue, scheduling, history>>

\* lines 209-213: both loops are done and gather() returns
GatherReturns ==
    /\ pc = "component"
    /\ coroutines.main = "gather"
    /\ coroutines.consumer = "done"
    /\ coroutines.resync = "done"
    /\ coroutines' = [coroutines EXCEPT !.main = "finally"]
    /\ UNCHANGED <<non_worker_vars, monitor_tasks, scheduler, worker,
                   task_runs, task_queue, scheduling, history>>

\* lines 286-287
MainFinally ==
    /\ pc = "component"
    /\ coroutines.main = "finally"
    /\ coroutines' = [coroutines EXCEPT !.main = "await_shutdown",
                                        !.shutdown["main"] = "called"]
    /\ UNCHANGED <<non_worker_vars, monitor_tasks, scheduler, worker,
                   task_runs, task_queue, scheduling, history>>

\* main() returns and asyncio.run() closes the event loop
MainExit ==
    /\ pc = "component"
    /\ coroutines.main = "await_shutdown"
    /\ coroutines.shutdown["main"] = "returned"
    /\ coroutines' = [coroutines EXCEPT !.main = "done"]
    /\ UNCHANGED <<non_worker_vars, monitor_tasks, scheduler, worker,
                   task_runs, task_queue, scheduling, history>>

\* a schedule_task that enqueues the id before it commits the row
ScheduleSteps_PushFirst == <<"lpush", "commit", "return">>

\* schedule_task: line 126, line 130 (trigger_task_run, line 52), line 132
ScheduleSteps == <<"commit", "lpush", "return">>

\* the next step of call c of schedule_task in the API process; error:
\* the commit or the lpush raises and the call ends
ScheduleTaskStep(c, error) ==
    /\ pc = "component"
    /\ scheduling[c].outcome = "none"
    /\ scheduling[c].run_id # 0 \/ FreshRunIds # {}
    /\ LET call == scheduling[c]
           id == IF call.run_id = 0 THEN FreshRunId ELSE call.run_id
           step == ScheduleSteps[call.step + 1]
           next == [call EXCEPT !.step = @ + 1, !.run_id = id]
       IN  IF error /\ step # "return"
           THEN /\ scheduling' = [scheduling EXCEPT ![c] =
                        [call EXCEPT !.run_id = id, !.outcome = "raised"]]
                /\ UNCHANGED <<task_runs, task_queue>>
           ELSE CASE step = "commit" ->
                       /\ task_runs' = task_runs \cup {id}
                       /\ scheduling' = [scheduling EXCEPT ![c] = next]
                       /\ UNCHANGED task_queue
                  [] step = "lpush" ->
                       /\ task_queue' = <<id>> \o task_queue
                       /\ scheduling' = [scheduling EXCEPT ![c] = next]
                       /\ UNCHANGED task_runs
                  [] step = "return" ->
                       /\ scheduling' = [scheduling EXCEPT ![c] =
                            [next EXCEPT !.outcome = "returned",
                                         !.result = id]]
                       /\ UNCHANGED <<task_runs, task_queue>>
    /\ UNCHANGED <<non_worker_vars, monitor_tasks, scheduler, worker,
                   coroutines, history>>

NextWorker ==
    \/ Start
    \/ \E db_error \in BOOLEAN : InitializeResources(db_error)
    \/ \E db_error \in BOOLEAN : FirstSync(db_error)
    \/ ResyncEnter
    \/ \E db_error \in BOOLEAN : ResyncSync(db_error)
    \/ ConsumerPass
    \/ ConsumerWake
    \/ \E loop \in {"consumer", "resync"} : LoopCancelled(loop)
    \/ \E t \in TaskIds : CronFire(t)
    \/ Signal
    \/ \E c \in ShutdownCalls : ShutdownBegin(c)
    \/ \E c \in ShutdownCalls : ShutdownAfterConsumer(c)
    \/ \E c \in ShutdownCalls : ShutdownAfterSync(c)
    \/ \E c \in ShutdownCalls : ShutdownReturn(c)
    \/ GatherReturns
    \/ MainFinally
    \/ MainExit
    \/ \E c \in ApiCalls, error \in BOOLEAN : ScheduleTaskStep(c, error)

SpecWorker == InitWorker /\ [][NextWorker]_vars

\* the event loop runs every coroutine that can take a step; signals,
\* cron times and API requests may or may not come
WorkerFairness ==
    /\ WF_vars(Start)
    /\ WF_vars(\E db_error \in BOOLEAN : InitializeResources(db_error))
    /\ WF_vars(\E db_error \in BOOLEAN : FirstSync(db_error))
    /\ WF_vars(ResyncEnter)
    /\ WF_vars(\E db_error \in BOOLEAN : ResyncSync(db_error))
    /\ WF_vars(ConsumerPass)
    /\ WF_vars(ConsumerWake)
    /\ WF_vars(\E loop \in {"consumer", "resync"} : LoopCancelled(loop))
    /\ \A c \in ShutdownCalls :
          /\ WF_vars(ShutdownBegin(c))
          /\ WF_vars(ShutdownAfterConsumer(c))
          /\ WF_vars(ShutdownAfterSync(c))
          /\ WF_vars(ShutdownReturn(c))
    /\ WF_vars(GatherReturns)
    /\ WF_vars(MainFinally)
    /\ WF_vars(MainExit)

SpecWorkerLive == SpecWorker /\ WorkerFairness

InQueue(id) == \E i \in 1..Len(task_queue) : task_queue[i] = id

\* C23: while the worker is running, every run id pushed onto the queue
\* by schedule_task / trigger_task_run is eventually dequeued by the
\* consumer loop, and execute_task_run is invoked for it exactly once.
C23_QueuedRunIsExecutedOnce ==
    \A id \in RunIds :
        /\ [](history.invocations[id] <= 1)
        /\ (InQueue(id) /\ worker.running)
                ~> (history.invocations[id] = 1 \/ ~worker.running)

\* C24: nothing ends the consumer loop while running is true: the loop
\* waits a bounded time (at most 10 seconds) and polls the queue again.
C24_ConsumerKeepsPolling ==
    /\ worker.running /\ coroutines.consumer # "none" =>
          coroutines.consumer # "done"
    /\ coroutines.consumer = "sleeping" => coroutines.wait <= 10
    /\ history.last_pass \in {"none", "polled"}

\* C25: when a shutdown() has returned, from the signal handler or from
\* main's finally block, the cron scheduler is stopped, neither loop is
\* running, and no run has been started since.
C25_StoppedAfterShutdown ==
    Returned_shutdowns # {} =>
        /\ ~scheduler.running
        /\ coroutines.consumer \in {"none", "done"}
        /\ coroutines.resync \in {"none", "done"}
        /\ history.late_runs = 0

CallIndex(i) == Cardinality({j \in 1..i : trace[j] = "call_api"})

C32_RecoversAfterTimeout ==
    (/\ observed.op = "can_execute"
     /\ observed.before.state = "open"
     /\ observed.elapsed >= recovery_timeout)
        => /\ observed.answer
           /\ observed.after.state = "half_open"

(* ---------------------------------------------------------------------- *)
(* execute_task_run: order of the pairs and of the commits                 *)
(* ---------------------------------------------------------------------- *)
\* the place of a pair in the order of lines 520-521: keyword by keyword,
\* the models in the order of the query of lines 498-502 (ORDER BY priority)
PairIndex(p) == (p[1] - 1) * Len(task.models) + p[2]

\* the pairs with a committed ModelOutput row
StoredPairs == {PairOf(outputs[i]) : i \in 1..Len(outputs)}
\* the pairs execute() was called for
ExecutedPairs == {p \in AllPairs : execute_calls[p] > 0}

\* C33: at most one execute() of the run is in progress, the pairs are
\* visited keyword by keyword with the models in priority order, and the
\* row of a pair is committed before the execute() of the next pair begins:
\* at every moment storage holds rows for exactly the pairs processed so
\* far, which are the first ones of that order.
C33_PairsInOrderCommittedOneByOne ==
    /\ Cardinality(ExecutedPairs \ StoredPairs) <= 1
    /\ StoredPairs \subseteq ExecutedPairs
    /\ ExecutedPairs \subseteq Pairs
    /\ \A p \in ExecutedPairs : \A q \in Pairs :
            PairIndex(q) < PairIndex(p) => q \in StoredPairs
    /\ \A i, k \in 1..Len(outputs) :
            i < k => PairIndex(PairOf(outputs[i])) <= PairIndex(PairOf(outputs[k]))
    /\ pc \in {"execute", "attempt", "persist"} =>
            /\ StoredPairs = {q \in Pairs : PairIndex(q) < PairIndex(<<ki, mi>>)}
            /\ ExecutedPairs \ StoredPairs =
                    IF pc = "execute" THEN {} ELSE {<<ki, mi>>}
    /\ pc = "finish" => StoredPairs = Pairs

\* the fourth pair of a 2 x 2 matrix is in its retry loop and storage holds
\* the rows of the three pairs before it, the second of them failed
C33_Witness ==
    /\ pc = "attempt"
    /\ Len(task.keywords) = 2 /\ Len(task.models) = 2
    /\ <<ki, mi>> = <<2, 2>>
    /\ StoredPairs = {<<1, 1>>, <<1, 2>>, <<2, 1>>}
    /\ results[<<1, 2>>] = "failed"
    /\ attempt = 1

(* ---------------------------------------------------------------------- *)
(* execute_task_run invoked again for a run it has already executed        *)
(* ---------------------------------------------------------------------- *)
MaxInvocations == 2

\* the provider either refuses the connection or answers well
RerunOutcomes ==
    { Outcome("network_error", Content("empty", JNull), NoUsage),
      Outcome("ok", Content("json", ResponseOk), UsageNormal) }

\* worker.py line 168: a worker calls execute_task_run(run_id) for the run
\* id of a run that an earlier call has left; the function opens a new
\* session and reads the row again (lines 447-455)
ExecuteTaskRunAgain ==
    /\ pc = "done"
    /\ \A p \in AllPairs : execute_calls[p] < MaxInvocations
    /\ pc' = "start"
    /\ UNCHANGED <<config_vars, storage_vars, loop_vars, totals_vars,
                   executor_vars, call_vars, ghost_vars, db_faults>>
    /\ UNCHANGED unit_vars

NextRerun ==
    \/ BeginRun(FALSE)
    \/ LoadMatrix(FALSE)
    \/ \E elapsed \in ElapsedChoices : ExecuteBegin(elapsed)
    \/ \E outcome \in RerunOutcomes : Attempt(outcome)
    \/ PersistOutput(0)
    \/ FinishRun(FALSE)
    \/ ExecuteTaskRunAgain

SpecRerun == Init /\ [][NextRerun]_vars

SpecRunsLive ==
    /\ SpecRuns
    /\ WF_vars(RunsTick)
    /\ \A r \in RunPool :
            /\ WF_vars(RunExecuteBegin(r))
            /\ WF_vars(\E outcome \in RunOutcomes : RunAttempt(r, outcome))
            /\ WF_vars(RunReturns(r))

\* C35 (as claimed): a run that has been moved to running and has built
\* its executor gets to the end of execute_task_run, where it is left in a
\* terminal status, whatever the size of its matrix and whatever the
\* provider answers.
C35_RunningRunTerminates ==
    \A r \in RunPool : (r \in InFlight) ~> (executors[r] = ExecutorDropped)

\* C36 (as claimed): the breaker never goes from open to closed in one
\* step; it leaves open only for half_open, in a can_execute() made
\* recovery_timeout seconds or more after the last failure.
C36_OpenLeavesOnlyToHalfOpen ==
    [][(circuit_breaker.state = "open" /\ circuit_breaker'.state # "open")
        => /\ circuit_breaker'.state = "half_open"
           /\ observed'.op = "can_execute"
           /\ observed'.elapsed >= recovery_timeout]_vars

\* C37: the breaker's state is closed, open or half_open; while it is
\* closed fewer than failure_threshold failures are counted; while it is
\* open or half_open at least failure_threshold failures are counted and
\* the time of the last failure is set.
C37_BreakerInvariants ==
    /\ circuit_breaker.state \in {"closed", "open", "half_open"}
    /\ circuit_breaker.state = "closed"
            => circuit_breaker.failure_count < failure_threshold
    /\ circuit_breaker.state \in {"open", "half_open"}
            => /\ circuit_breaker.failure_count >= failure_threshold
               /\ circuit_breaker.has_last_failure

\* the probe of a half-open breaker failed: open again, one failure above
\* the threshold, and a second caller was admitted before that
C37_Witness ==
    /\ circuit_breaker.state = "open"
    /\ circuit_breaker.failure_count = failure_threshold + 1
    /\ observed.op = "record_failure"
    /\ observed.before.state = "half_open"
    /\ \E c \in Coroutines : callers[c].pc = "admitted"

(* ---------------------------------------------------------------------- *)
(* execute_task_run: the status of the run                                 *)
(* ---------------------------------------------------------------------- *)
StatusRank(status) ==
    CASE status = "pending" -> 0
      [] status = "running" -> 1
      [] OTHER -> 2

\* the status goes forward, and a terminal status is not changed
StatusMovesForward ==
    [][/\ StatusRank(run'.status) >= StatusRank(run.status)
       /\ run.status \in TerminalStatuses => run'.status = run.status]_vars

\* running and started_at are in storage before the first ModelOutput row,
\* and no row is written after the terminal status
RowsWhileRunning ==
    /\ [](outputs # <<>> => (run.started_at /\ run.status # "pending"))
    /\ [][run.status \in TerminalStatuses => outputs' = outputs]_vars

\* C38 (as claimed): within one invocation of execute_task_run the status
\* of the run only goes forward, pending, running, one terminal status;
\* running is committed with started_at before the first ModelOutput row,
\* the terminal status after the last one, and a run left in a terminal
\* status has completed_at set.
C38_StatusForwardAndStamped ==
    /\ StatusMovesForward
    /\ RowsWhileRunning
    /\ [](run.status \in TerminalStatuses => run.completed_at)

(* ---------------------------------------------------------------------- *)
(* calculate_metrics on validated responses                                *)
(* ---------------------------------------------------------------------- *)
RECURSIVE Sum(_)
Sum(values) == IF values = <<>> THEN 0 ELSE Head(values) + Sum(Tail(values))

\* a quotient kept in hundredths; Decimal(str(x)) keeps the float as it is
Hundredths(num, den) == (num * PercentScale) \div den

\* accuracy_score of a snapshot: None, or an integer
NoAccuracy == [is_none |-> TRUE, value |-> 0]

\* executor.py lines 632-661: the four scores of the MetricsSnapshot, the
\* percentages and the sentiment in hundredths
calculate_metrics(response_data) ==
    LET brands_data == DictGet(response_data, "brands", JList(<<>>)).items
        total_brands ==
            IntValue(DictGet(response_data, "total_brands_mentioned",
                             JInt(Len(brands_data))))
        HasName(b) == Truthy(DictGet(b, "name", JNull))
        brands_mentioned == SelectSeq(brands_data, HasName)
        accuracy_of(b) == DictGet(b, "accuracy_score", JNull)
        Scored(b) ==
            /\ IsInstanceInt(accuracy_of(b))
            /\ 1 <= IntValue(accuracy_of(b))
            /\ IntValue(accuracy_of(b)) <= 10
        scored == SelectSeq(brands_data, Scored)
        accuracy_scores ==
            [i \in 1..Len(scored) |-> IntValue(accuracy_of(scored[i]))]
        sentiment_of(b) == DictGet(b, "sentiment", JNull)
        Mapped(b) ==
            sentiment_of(b).t = "str" /\ sentiment_of(b).s \in ValidSentiments
        felt == SelectSeq(brands_data, Mapped)
        sentiments ==
            [i \in 1..Len(felt) |->
                CASE sentiment_of(felt[i]).s = "Positive" -> 1
                  [] sentiment_of(felt[i]).s = "Neutral" -> 0
                  [] OTHER -> -1]
        Linked(b) == Truthy(DictGet(b, "has_link", JBool(FALSE)))
        links_count == Len(SelectSeq(brands_data, Linked))
    IN  [sov_score |->
            IF brands_mentioned # <<>>
            THEN Hundredths(Len(brands_mentioned) * 100, Max(total_brands, 1))
            ELSE 0,
         accuracy_score |->
            IF accuracy_scores # <<>>
            THEN [is_none |-> FALSE,
                  value |-> Sum(accuracy_scores) \div Len(accuracy_scores)]
            ELSE NoAccuracy,
         sentiment_score |->
            IF sentiments # <<>>
            THEN Hundredths(Sum(sentiments), Len(sentiments))
            ELSE 0,
         citation_rate |->
            IF brands_mentioned # <<>>
            THEN Hundredths(links_count * 100, Len(brands_mentioned))
            ELSE 0,
         mentioned |-> Len(brands_mentioned)]

\* calculator.py lines 156-172, in hundredths
calculate_citation_rate(answers_with_links, total_mentions) ==
    IF total_mentions = 0 THEN 0
    ELSE round_percent(answers_with_links, total_mentions)

MaxBrands == 2

MetricsBrand(name, sentiment, has_link, accuracy_score) ==
    DictOf([k \in {"name", "sentiment", "has_link", "accuracy_score"} |->
              CASE k = "name" -> name
                [] k = "sentiment" -> sentiment
                [] k = "has_link" -> has_link
                [] k = "accuracy_score" -> accuracy_score])

MetricsBrands ==
    {MetricsBrand(n, st, l, a) :
        n \in {JStr("Acme"), JStr(""), Absent},
        st \in {Absent, JStr("Negative")},
        l \in {Absent, JBool(TRUE)},
        a \in {Absent, JInt(10)}}

TotalBrandsChoices == {Absent, JInt(1), JStr("one")}

MetricsResponse(brands, total) ==
    DictOf([k \in {"brands", "total_brands_mentioned"} |->
              IF k = "brands" THEN JList(brands) ELSE total])

MetricsArguments ==
    [fn : {"calculate_metrics"},
     response_data : {MetricsResponse(b, t) :
                        b \in SeqsUpTo(MetricsBrands, MaxBrands),
                        t \in TotalBrandsChoices}]

CitationArguments ==
    [fn : {"calculate_citation_rate"},
     answers_with_links : 0..MaxBrands,
     total_mentions : 0..MaxBrands]

InitMetrics ==
    /\ PipelineIdle
    /\ response = JNull
    /\ ComponentsIdle
    /\ RunsIdle
    /\ WorkerIdle
    /\ arguments \in MetricsArguments \cup CitationArguments
    /\ return_value = NoCall

\* executor.py lines 222-225: the parsed response does not pass
\* _validate_response; the attempt fails and no snapshot is built from it
RejectResponse ==
    /\ pc = "component"
    /\ Pending("calculate_metrics")
    /\ ~validate_response(arguments.response_data)
    /\ return_value' = [outcome |-> "rejected"]
    /\ UNCHANGED <<non_calculator_vars, arguments, observed>>

\* executor.py lines 541-551: calculate_metrics on the response of a
\* completed output; an exception is logged and no snapshot is added
CalculateMetrics ==
    /\ pc = "component"
    /\ Pending("calculate_metrics")
    /\ validate_response(arguments.response_data)
    /\ return_value' =
            IF calculate_metrics_raises(arguments.response_data)
            THEN [outcome |-> "raised"]
            ELSE [outcome |-> "snapshot",
                  value |-> calculate_metrics(arguments.response_data)]
    /\ UNCHANGED <<non_calculator_vars, arguments, observed>>

CalculateCitationRate ==
    /\ pc = "component"
    /\ Pending("calculate_citation_rate")
    /\ return_value' =
            [outcome |-> "returned",
             value |-> calculate_citation_rate(arguments.answers_with_links,
                                               arguments.total_mentions)]
    /\ UNCHANGED <<non_calculator_vars, arguments, observed>>

NextMetrics ==
    \/ RejectResponse
    \/ CalculateMetrics
    \/ CalculateCitationRate

SpecMetrics == InitMetrics /\ [][NextMetrics]_vars

\* C40 (as claimed): every snapshot calculate_metrics builds from a
\* response that passed _validate_response has sov_score in [0, 100],
\* citation_rate in [0, 100] and 0 when no brand is mentioned,
\* sentiment_score in [-1, 1], and accuracy_score None or an integer in
\* [1, 10].
C40_ScoresWithinRange ==
    (Called("calculate_metrics") /\ return_value.outcome = "snapshot") =>
        LET m == return_value.value
        IN  /\ 0 <= m.sov_score /\ m.sov_score <= 100 * PercentScale
            /\ 0 <= m.citation_rate /\ m.citation_rate <= 100 * PercentScale
            /\ m.mentioned = 0 => m.citation_rate = 0
            /\ -PercentScale <= m.sentiment_score
            /\ m.sentiment_score <= PercentScale
            /\ \/ m.accuracy_score.is_none
               \/ (1 <= m.accuracy_score.value /\ m.accuracy_score.value <= 10)

====
